---- MODULE Spec2Model ----
(***************************************************************************)
(* Image layout and descriptor construction of the turnip Vulkan driver    *)
(* (src/freedreno/vulkan/tu_image.c): image creation with its tiling /     *)
(* UBWC policy and per-plane layout, the subresource-layout and modifier   *)
(* queries, image views and buffer views.                                  *)
(***************************************************************************)
EXTENDS Integers, Sequences, FiniteSets, TLC

VARIABLES
  dev,          \* device: [noubwc : BOOLEAN, limited_z24s8 : BOOLEAN]
  pc,           \* "idle" | "created" | "failed" | "aborted"
  args,         \* arguments of the last tu_image_create call, or NULL
  image,        \* the live struct tu_image, or NULL
  image_frees,  \* vk_object_free calls on the image allocated by the last create
  pImage,       \* the caller's VkImage output slot: "unwritten" | "handle"
  result,       \* VkResult of the last create call, or "NONE"
  call,         \* the last query / view call: [op, in, out]; op "none" before any
  bo,           \* memory bound to the image: [iova, bo_offset]
  image_view,   \* the live struct tu_image_view, or NULL
  buffer_view   \* the live struct tu_buffer_view, or NULL

vars == <<dev, pc, args, image, image_frees, pImage, result, call, bo, image_view,
          buffer_view>>

\* a null pointer (in place of a struct)
NULL == [null |-> TRUE]

----------------------------------------------------------------------------
(* Bounds of the model *)

MaxMipLevels == 2
MaxArrayLayers == 2

----------------------------------------------------------------------------
(* Arithmetic helpers *)

Min2(a, b) == IF a < b THEN a ELSE b

Max2(a, b) == IF a > b THEN a ELSE b

\* MAX2 used at tu_image.c:286
MAX2(a, b) == IF a > b THEN a ELSE b

\* ALIGN_POT(x, pot_align) used at tu_image.c:278
ALIGN_POT(x, a) == ((x + a - 1) \div a) * a

DIV_ROUND_UP(a, b) == (a + b - 1) \div b

RECURSIVE Shr(_, _)
Shr(x, n) == IF n = 0 THEN x ELSE Shr(x \div 2, n - 1)

\* u_minify: MAX2(1, value >> levels)
u_minify(value, levels) == Max2(1, Shr(value, levels))

RECURSIVE SumTo(_, _)
\* sum of f[0] .. f[n-1]
SumTo(f, n) == IF n = 0 THEN 0 ELSE f[n - 1] + SumTo(f, n - 1)

----------------------------------------------------------------------------
(* enum a6xx_tile_mode *)

TILE6_LINEAR == 0
TILE6_3 == 3

(* DRM format modifiers *)
DRM_FORMAT_MOD_LINEAR == "DRM_FORMAT_MOD_LINEAR"
DRM_FORMAT_MOD_QCOM_COMPRESSED == "DRM_FORMAT_MOD_QCOM_COMPRESSED"
DRM_FORMAT_MOD_INVALID == "DRM_FORMAT_MOD_INVALID"

VK_SUCCESS == "VK_SUCCESS"
VK_ERROR_OUT_OF_HOST_MEMORY == "VK_ERROR_OUT_OF_HOST_MEMORY"
VK_ERROR_INVALID_DRM_FORMAT_MODIFIER_PLANE_LAYOUT_EXT ==
  "VK_ERROR_INVALID_DRM_FORMAT_MODIFIER_PLANE_LAYOUT_EXT"

----------------------------------------------------------------------------
(* Format registry (vk_format.h / u_format.h queries used by tu_image.c) *)

ImageFormats ==
  { "R8G8B8A8_UNORM", "D24_UNORM_S8_UINT", "D32_SFLOAT_S8_UINT", "S8_UINT",
    "G8_B8R8_2PLANE_420_UNORM", "G8_B8_R8_3PLANE_420_UNORM",
    "G8B8G8R8_422_UNORM", "BC1_RGB_UNORM_BLOCK", "E5B9G9R9_UFLOAT_PACK32" }

vk_format_is_depth_or_stencil(format) ==
  format \in { "D24_UNORM_S8_UINT", "X8_D24_UNORM_PACK32", "D32_SFLOAT_S8_UINT",
               "D32_SFLOAT", "S8_UINT" }

vk_format_is_compressed(format) ==
  format \in { "BC1_RGB_UNORM_BLOCK", "BC1_RGB_SRGB_BLOCK" }

vk_format_is_subsampled(format) ==
  format \in { "G8B8G8R8_422_UNORM", "B8G8R8G8_422_UNORM" }

vk_format_is_srgb(format) ==
  format \in { "R8G8B8A8_SRGB", "BC1_RGB_SRGB_BLOCK" }

\* util_format_get_blocksize: bytes per block
util_format_get_blocksize(format) ==
  CASE format \in { "S8_UINT", "R8_UNORM" } -> 1
    [] format = "R8G8_UNORM" -> 2
    [] format \in { "BC1_RGB_UNORM_BLOCK", "BC1_RGB_SRGB_BLOCK" } -> 8
    [] format = "R32G32B32A32_SFLOAT" -> 16
    [] OTHER -> 4

util_format_get_blockwidth(format) ==
  CASE format \in { "BC1_RGB_UNORM_BLOCK", "BC1_RGB_SRGB_BLOCK" } -> 4
    [] format \in { "G8B8G8R8_422_UNORM", "B8G8R8G8_422_UNORM" } -> 2
    [] OTHER -> 1

util_format_get_blockheight(format) ==
  CASE format \in { "BC1_RGB_UNORM_BLOCK", "BC1_RGB_SRGB_BLOCK" } -> 4
    [] OTHER -> 1

----------------------------------------------------------------------------
(* Plane decomposition: tu_image.c:39-82 *)

tu6_plane_count(format) ==
  CASE format = "G8_B8R8_2PLANE_420_UNORM" -> 2
    [] format = "D32_SFLOAT_S8_UINT" -> 2
    [] format = "G8_B8_R8_3PLANE_420_UNORM" -> 3
    [] OTHER -> 1

tu6_plane_format(format, plane) ==
  CASE format = "G8_B8R8_2PLANE_420_UNORM" ->
         (IF plane # 0 THEN "R8G8_UNORM" ELSE "R8_UNORM")
    [] format = "G8_B8_R8_3PLANE_420_UNORM" -> "R8_UNORM"
    [] format = "D32_SFLOAT_S8_UINT" ->
         (IF plane # 0 THEN "S8_UINT" ELSE "D32_SFLOAT")
    [] OTHER -> format

\* faulty variant: the stencil aspect resolved to plane 1 for every format
tu6_plane_index_StencilIsOne(format, aspect_mask) ==
  CASE aspect_mask = "PLANE_1" -> 1
    [] aspect_mask = "PLANE_2" -> 2
    [] aspect_mask = "STENCIL" -> 1
    [] OTHER -> 0

tu6_plane_index(format, aspect_mask) ==
  CASE aspect_mask = "PLANE_1" -> 1
    [] aspect_mask = "PLANE_2" -> 2
    [] aspect_mask = "STENCIL" ->
         (IF format = "D32_SFLOAT_S8_UINT" THEN 1 ELSE 0)
    [] OTHER -> 0

----------------------------------------------------------------------------
(* The hardware layout engine (fdl6_layout and the fdl_* accessors of      *)
(* freedreno/fdl), which tu_image.c calls: per-plane slice table, layer    *)
(* stride, UBWC metadata region and total size.                            *)

Levels == 0 .. (MaxMipLevels - 1)

\* log2 of the base pitch alignment (64 bytes)
FDL_PITCHALIGN == 6

\* footprint of one UBWC metadata block, in texels
UBWC_BLOCK_W == 16
UBWC_BLOCK_H == 4

ZeroSlice == [offset |-> 0, pitch |-> 0, size0 |-> 0]

\* a struct fdl_layout as vk_object_zalloc leaves it
ZeroLayout ==
  [ tile_mode |-> 0, ubwc |-> FALSE,
    width0 |-> 0, height0 |-> 0, depth0 |-> 0,
    pitchalign |-> 0, cpp |-> 0, layer_first |-> FALSE,
    slices |-> [l \in Levels |-> ZeroSlice],
    ubwc_slices |-> [l \in Levels |-> ZeroSlice],
    layer_size |-> 0, ubwc_layer_size |-> 0, size |-> 0 ]

fdl6_layout(layout, format, nr_samples, width0, height0, depth0, mip_levels, array_size, is_3d, explicit_layout) ==
  LET cpp == util_format_get_blocksize(format) * nr_samples
      palign == 64
      nblocksx(l) == DIV_ROUND_UP(u_minify(width0, l),
                                  util_format_get_blockwidth(format))
      nblocksy(l) == DIV_ROUND_UP(u_minify(height0, l),
                                  util_format_get_blockheight(format))
      pitch(l) == IF explicit_layout # NULL /\ l = 0
                    THEN explicit_layout.pitch
                    ELSE ALIGN_POT(nblocksx(l) * cpp, palign)
      \* per-level size: pitch x rows x depth of the level
      lsize == [l \in Levels |-> pitch(l) * nblocksy(l) * u_minify(depth0, l)]
      data_layer == SumTo(lsize, mip_levels)
      layer_size == IF is_3d THEN 0 ELSE ALIGN_POT(data_layer, palign)
      data_total == IF is_3d THEN data_layer * array_size
                             ELSE layer_size * array_size
      upitch(l) == ALIGN_POT(DIV_ROUND_UP(u_minify(width0, l), UBWC_BLOCK_W),
                             palign)
      usize == [l \in Levels |->
                 upitch(l) * DIV_ROUND_UP(u_minify(height0, l), UBWC_BLOCK_H)]
      ubwc_layer_size == IF layout.ubwc THEN SumTo(usize, mip_levels) ELSE 0
      meta_total == ubwc_layer_size * array_size
      base == IF explicit_layout # NULL THEN explicit_layout.offset ELSE 0
      feasible == \/ explicit_layout = NULL
                  \/ /\ explicit_layout.pitch % palign = 0
                     /\ explicit_layout.pitch >= nblocksx(0) * cpp
  IN  [ ok |-> feasible,
        layout |->
          [ layout EXCEPT
              !.width0 = width0, !.height0 = height0, !.depth0 = depth0,
              !.pitchalign = FDL_PITCHALIGN, !.cpp = cpp,
              !.layer_first = ~is_3d,
              !.slices = [l \in Levels |->
                 IF l < mip_levels
                   THEN [ offset |-> base + meta_total + SumTo(lsize, l),
                          pitch |-> pitch(l), size0 |-> lsize[l] ]
                   ELSE ZeroSlice],
              !.ubwc_slices = [l \in Levels |->
                 IF l < mip_levels /\ layout.ubwc
                   THEN [ offset |-> base + SumTo(usize, l),
                          pitch |-> upitch(l), size0 |-> usize[l] ]
                   ELSE ZeroSlice],
              !.layer_size = layer_size,
              !.ubwc_layer_size = ubwc_layer_size,
              !.size = base + meta_total + data_total ] ]

fdl_layer_stride(layout, level) ==
  IF layout.layer_first THEN layout.layer_size
                        ELSE layout.slices[level].size0

fdl_surface_offset(layout, level, layer) ==
  layout.slices[level].offset + fdl_layer_stride(layout, level) * layer

fdl_ubwc_offset(layout, level, layer) ==
  layout.ubwc_slices[level].offset + layer * layout.ubwc_layer_size

fdl_pitch(layout, level) == layout.slices[level].pitch

fdl_ubwc_pitch(layout, level) == layout.ubwc_slices[level].pitch

fdl_ubwc_enabled(layout, level) == layout.ubwc

\* tail mips narrower than one tile are linear unless UBWC keeps TILE_ALL
fdl_tile_mode(layout, level) ==
  IF layout.tile_mode # 0 /\ ~layout.ubwc /\ u_minify(layout.width0, level) < 16
    THEN 0
    ELSE layout.tile_mode

----------------------------------------------------------------------------
(* tu_image_create: tu_image.c:84-296 *)

PlaneIdx == 0 .. 2

YCbCr420Formats == { "G8_B8R8_2PLANE_420_UNORM", "G8_B8_R8_3PLANE_420_UNORM" }

\* the struct as vk_object_zalloc returns it, with the fields of lines 108-117
NewImage(pCreateInfo) ==
  [ type |-> pCreateInfo.imageType,
    vk_format |-> pCreateInfo.format,
    tiling |-> pCreateInfo.tiling,
    usage |-> pCreateInfo.usage,
    flags |-> pCreateInfo.flags,
    extent |-> pCreateInfo.extent,
    level_count |-> pCreateInfo.mipLevels,
    layer_count |-> pCreateInfo.arrayLayers,
    samples |-> pCreateInfo.samples,
    layout |-> [p \in PlaneIdx |-> ZeroLayout],
    total_size |-> 0 ]

\* faulty variant: the test of lines 148-152 without its mutable-format clause
ForceLinear_NoMutable(pCreateInfo, modifier) ==
  \/ pCreateInfo.tiling = "LINEAR"
  \/ modifier = DRM_FORMAT_MOD_LINEAR
  \/ vk_format_is_subsampled(pCreateInfo.format)

\* lines 148-152: linear requested, YUYV/UYVY, or a mutable colour image
ForceLinear(pCreateInfo, modifier) ==
  \/ pCreateInfo.tiling = "LINEAR"
  \/ modifier = DRM_FORMAT_MOD_LINEAR
  \/ vk_format_is_subsampled(pCreateInfo.format)
  \/ /\ "MUTABLE_FORMAT" \in pCreateInfo.flags
     /\ ~vk_format_is_depth_or_stencil(pCreateInfo.format)

\* lines 167-168
IsYCbCr420(format) == format \in YCbCr420Formats

\* faulty variant: the storage test of line 199 left out
StorageNoUbwc_Never(usage) == FALSE

\* line 199: storage images never get UBWC
StorageNoUbwc(usage) == "STORAGE" \in usage

\* faulty variant: lines 214-217 looking at the SAMPLED bit only
LimitedZ24S8NoUbwc_SampledOnly(device, format, usage) ==
  /\ device.limited_z24s8
  /\ format = "D24_UNORM_S8_UINT"
  /\ "SAMPLED" \in usage

\* lines 213-215: D24S8 on hardware without FMT6_Z24_UINT_S8_UINT
LimitedZ24S8NoUbwc(device, format, usage) ==
  /\ device.limited_z24s8
  /\ format = "D24_UNORM_S8_UINT"
  /\ usage \cap { "SAMPLED", "INPUT_ATTACHMENT" } # {}

\* lines 134-217: the tile mode and the UBWC decision before the plane loop
TilingPolicy(device, pCreateInfo, modifier) ==
  LET format == pCreateInfo.format
      lin == ForceLinear(pCreateInfo, modifier) \/ IsYCbCr420(format)
      tile_mode == IF lin THEN TILE6_LINEAR ELSE TILE6_3
      ubwc_enabled ==
        /\ ~device.noubwc
        /\ ~lin
        /\ ~vk_format_is_compressed(format)
        /\ format # "E5B9G9R9_UFLOAT_PACK32"
        /\ format # "S8_UINT"
        /\ ~(pCreateInfo.extent.depth > 1)
        /\ ~StorageNoUbwc(pCreateInfo.usage)
        /\ ~LimitedZ24S8NoUbwc(device, format, pCreateInfo.usage)
  IN  [tile_mode |-> tile_mode, ubwc_enabled |-> ubwc_enabled]

\* faulty variant: the assert of line 220 compiled out
CompressedAssert_Off(modifier, ubwc_enabled) == TRUE

\* line 220: assert(modifier != DRM_FORMAT_MOD_QCOM_COMPRESSED || ubwc_enabled)
CompressedAssert(modifier, ubwc_enabled) ==
  modifier # DRM_FORMAT_MOD_QCOM_COMPRESSED \/ ubwc_enabled

\* faulty variant: lines 222-243 halving the extent once more for every
\* plane before it
PlaneExtent_Cumulative(pCreateInfo, i) ==
  IF i > 0 /\ IsYCbCr420(pCreateInfo.format)
    THEN [ width0 |-> Shr(pCreateInfo.extent.width + (2 ^ i) - 1, i),
           height0 |-> Shr(pCreateInfo.extent.height + (2 ^ i) - 1, i) ]
    ELSE [ width0 |-> pCreateInfo.extent.width,
           height0 |-> pCreateInfo.extent.height ]

\* lines 228-235: half width/height on chroma planes
PlaneExtent(pCreateInfo, i) ==
  IF i > 0 /\ IsYCbCr420(pCreateInfo.format)
    THEN [ width0 |-> (pCreateInfo.extent.width + 1) \div 2,
           height0 |-> (pCreateInfo.extent.height + 1) \div 2 ]
    ELSE [ width0 |-> pCreateInfo.extent.width,
           height0 |-> pCreateInfo.extent.height ]

\* lines 236-239: no UBWC for the separate stencil plane, and from then on
PlaneUbwc(format, i, ubwc_enabled) ==
  IF i > 0 /\ format = "D32_SFLOAT_S8_UINT" THEN FALSE ELSE ubwc_enabled

\* faulty variant: the test of lines 249-251 without its arrayLayers clause
ExplicitUnsupported_NoLayers(pCreateInfo) ==
  \/ pCreateInfo.mipLevels # 1
  \/ pCreateInfo.extent.depth # 1

\* lines 249-251: only simple 2D images with an explicit layout
ExplicitUnsupported(pCreateInfo) ==
  \/ pCreateInfo.mipLevels # 1
  \/ pCreateInfo.arrayLayers # 1
  \/ pCreateInfo.extent.depth # 1

\* faulty variant: line 278 without the 4096-byte alignment
PlaneOffset_Unaligned(total_size) == total_size

\* line 278
PlaneOffset(total_size) == ALIGN_POT(total_size, 4096)

\* faulty variant: lines 278-286 without the growth of the plane's size
ShiftPlane_SlicesOnly(layout, offset, mipLevels) ==
  [ layout EXCEPT
      !.slices = [l \in Levels |->
         IF l < mipLevels THEN [@[l] EXCEPT !.offset = @ + offset] ELSE @[l]],
      !.ubwc_slices = [l \in Levels |->
         IF l < mipLevels THEN [@[l] EXCEPT !.offset = @ + offset] ELSE @[l]] ]

\* lines 279-283
ShiftPlane(layout, offset, mipLevels) ==
  [ layout EXCEPT
      !.slices = [l \in Levels |->
         IF l < mipLevels THEN [@[l] EXCEPT !.offset = @ + offset] ELSE @[l]],
      !.ubwc_slices = [l \in Levels |->
         IF l < mipLevels THEN [@[l] EXCEPT !.offset = @ + offset] ELSE @[l]],
      !.size = @ + offset ]

RECURSIVE PlaneLoop(_, _, _, _, _, _)
\* lines 222-287, iteration i onwards; end is "done", "invalid_layout" or
\* "assert" (line 270)
PlaneLoop(pCreateInfo, plane_layouts, img, tile_mode, ubwc_enabled, i) ==
  IF i >= tu6_plane_count(img.vk_format)
    THEN [end |-> "done", image |-> img]
    ELSE
      LET format == tu6_plane_format(img.vk_format, i)
          ext == PlaneExtent(pCreateInfo, i)
          ubwc_i == PlaneUbwc(img.vk_format, i, ubwc_enabled)
      IN  IF plane_layouts # NULL /\ ExplicitUnsupported(pCreateInfo)
            THEN [end |-> "invalid_layout", image |-> img]
            ELSE
              LET plane_layout ==
                    IF plane_layouts # NULL
                      THEN [ offset |-> plane_layouts.planes[i + 1].offset,
                             pitch |-> plane_layouts.planes[i + 1].rowPitch ]
                      ELSE NULL
                  r == fdl6_layout(
                         [img.layout[i] EXCEPT !.tile_mode = tile_mode,
                                               !.ubwc = ubwc_i],
                         format, img.samples, ext.width0, ext.height0,
                         pCreateInfo.extent.depth, pCreateInfo.mipLevels,
                         pCreateInfo.arrayLayers,
                         pCreateInfo.imageType = "3D", plane_layout)
                  img1 == [img EXCEPT !.layout[i] = r.layout]
              IN  IF ~r.ok
                    THEN [ end |-> IF plane_layouts # NULL
                                     THEN "invalid_layout" ELSE "assert",
                           image |-> img1 ]
                    ELSE
                      LET layout ==
                            IF plane_layouts = NULL /\ i > 0
                              THEN ShiftPlane(r.layout,
                                              PlaneOffset(img.total_size),
                                              pCreateInfo.mipLevels)
                              ELSE r.layout
                          img2 == [img EXCEPT
                                     !.layout[i] = layout,
                                     !.total_size = MAX2(@, layout.size)]
                      IN  PlaneLoop(pCreateInfo, plane_layouts, img2,
                                    tile_mode, ubwc_i, i + 1)

\* the whole call; alloc_ok is whether vk_object_zalloc returned memory.
\* status "ASSERT" is a failed assert(): the process aborts inside the call.
tu_image_create(device, pCreateInfo, modifier, plane_layouts, alloc_ok) ==
  IF ~alloc_ok
    THEN [ status |-> VK_ERROR_OUT_OF_HOST_MEMORY, image |-> NULL,
           frees |-> 0, pImage |-> "unwritten" ]
    ELSE
      LET img == NewImage(pCreateInfo)
          pol == TilingPolicy(device, pCreateInfo, modifier)
      IN  IF ~CompressedAssert(modifier, pol.ubwc_enabled)
            THEN [ status |-> "ASSERT", image |-> img,
                   frees |-> 0, pImage |-> "unwritten" ]
            ELSE
              LET r == PlaneLoop(pCreateInfo, plane_layouts, img,
                                 pol.tile_mode, pol.ubwc_enabled, 0)
              IN  CASE r.end = "done" ->
                         [ status |-> VK_SUCCESS, image |-> r.image,
                           frees |-> 0, pImage |-> "handle" ]
                    [] r.end = "invalid_layout" ->
                         [ status |->
                             VK_ERROR_INVALID_DRM_FORMAT_MODIFIER_PLANE_LAYOUT_EXT,
                           image |-> NULL, frees |-> 1, pImage |-> "unwritten" ]
                    [] OTHER ->
                         [ status |-> "ASSERT", image |-> r.image,
                           frees |-> 0, pImage |-> "unwritten" ]

----------------------------------------------------------------------------
(* tu_CreateImage: tu_image.c:676-724 *)

RECURSIVE ModifierFromList(_, _, _)
\* lines 705-709
ModifierFromList(mods, i, modifier) ==
  IF i > Len(mods) THEN modifier
  ELSE ModifierFromList(mods, i + 1,
         IF mods[i] = DRM_FORMAT_MOD_QCOM_COMPRESSED
           THEN DRM_FORMAT_MOD_QCOM_COMPRESSED ELSE modifier)

\* lines 691-721: the modifier and the explicit plane layouts handed on.
\* pNext: [kind : "none" | "wsi" | "mod_list" | "explicit", mods, modifier,
\* planes, scanout]
CreateImageArgs(pCreateInfo, pNext) ==
  IF pCreateInfo.tiling = "DRM_FORMAT_MODIFIER_EXT"
    THEN IF pNext.kind = "mod_list"
           THEN [ modifier |->
                    ModifierFromList(pNext.mods, 1, DRM_FORMAT_MOD_LINEAR),
                  plane_layouts |-> NULL ]
           ELSE [ modifier |-> pNext.modifier,
                  plane_layouts |-> [planes |-> pNext.planes] ]
    ELSE [ modifier |-> IF pNext.kind = "wsi" /\ pNext.scanout
                          THEN DRM_FORMAT_MOD_LINEAR
                          ELSE DRM_FORMAT_MOD_INVALID,
           plane_layouts |-> NULL ]

----------------------------------------------------------------------------
(* Component swizzles: tu_image.c:298-374 *)

\* index of a VkComponentSwizzle R..A into the source swizzle (line 311)
SwizzleIndex(vk_swiz) ==
  CASE vk_swiz = "R" -> 1 [] vk_swiz = "G" -> 2
    [] vk_swiz = "B" -> 3 [] vk_swiz = "A" -> 4

\* faulty variant: IDENTITY selects the first source element
compose_swizzle_IdentityIsR(swiz, mapping) ==
  LET vk_swiz == <<mapping.r, mapping.g, mapping.b, mapping.a>>
  IN  [ i \in 1 .. 4 |->
          CASE vk_swiz[i] = "IDENTITY" -> swiz[1]
            [] vk_swiz[i] \in { "R", "G", "B", "A" } ->
                 swiz[SwizzleIndex(vk_swiz[i])]
            [] vk_swiz[i] = "ZERO" -> "ZERO"
            [] vk_swiz[i] = "ONE" -> "ONE" ]

\* compose_swizzle: swiz is a 4-tuple over X, Y, Z, W, ZERO, ONE
compose_swizzle(swiz, mapping) ==
  LET vk_swiz == <<mapping.r, mapping.g, mapping.b, mapping.a>>
  IN  [ i \in 1 .. 4 |->
          CASE vk_swiz[i] = "IDENTITY" -> swiz[i]
            [] vk_swiz[i] \in { "R", "G", "B", "A" } ->
                 swiz[SwizzleIndex(vk_swiz[i])]
            [] vk_swiz[i] = "ZERO" -> "ZERO"
            [] vk_swiz[i] = "ONE" -> "ONE" ]

\* lines 332-364: the format's base swizzle
BaseSwizzle(format, aspect_mask, limited_z24s8) ==
  CASE format \in { "G8B8G8R8_422_UNORM", "B8G8R8G8_422_UNORM",
                    "G8_B8R8_2PLANE_420_UNORM", "G8_B8_R8_3PLANE_420_UNORM" } ->
         <<"Z", "X", "Y", "W">>
    [] format \in { "BC1_RGB_UNORM_BLOCK", "BC1_RGB_SRGB_BLOCK" } ->
         <<"X", "Y", "Z", "ONE">>
    [] format = "D24_UNORM_S8_UINT" /\ aspect_mask = "STENCIL" ->
         (IF limited_z24s8 THEN <<"W", "ZERO", "Z", "W">>
                           ELSE <<"Y", "ZERO", "Z", "W">>)
    [] OTHER -> <<"X", "Y", "Z", "W">>

\* faulty variant: the conversion's mapping is applied before the user's
tu6_texswiz_ConversionFirst(comps, conversion, format, aspect_mask, limited_z24s8) ==
  LET s0 == BaseSwizzle(format, aspect_mask, limited_z24s8)
  IN  IF conversion # NULL
        THEN compose_swizzle(compose_swizzle(s0, conversion.components), comps)
        ELSE compose_swizzle(s0, comps)

\* tu6_texswiz: the SWIZ_X..SWIZ_W fields of descriptor word 0
tu6_texswiz(comps, conversion, format, aspect_mask, limited_z24s8) ==
  LET s1 == compose_swizzle(BaseSwizzle(format, aspect_mask, limited_z24s8),
                            comps)
  IN  IF conversion # NULL THEN compose_swizzle(s1, conversion.components)
                           ELSE s1

----------------------------------------------------------------------------
(* Hardware format tables and enum translations used by the views         *)
(* (tu_formats.c, tu_private.h, a6xx.xml.h)                                *)

\* tu6_format_texture / tu6_format_color: hardware code, byte swap, and
\* what the format supports
tu6_native_format(format) ==
  CASE format \in { "R8G8B8A8_UNORM", "R8G8B8A8_SRGB" } ->
         [fmt |-> "FMT6_8_8_8_8_UNORM", swap |-> "WZYX",
          supported |-> {"FMT_TEXTURE", "FMT_COLOR"}]
    [] format \in { "D24_UNORM_S8_UINT", "X8_D24_UNORM_PACK32" } ->
         [fmt |-> "FMT6_Z24_UNORM_S8_UINT", swap |-> "WZYX",
          supported |-> {"FMT_TEXTURE", "FMT_COLOR"}]
    [] format = "D32_SFLOAT" ->
         [fmt |-> "FMT6_32_FLOAT", swap |-> "WZYX",
          supported |-> {"FMT_TEXTURE", "FMT_COLOR"}]
    [] format = "S8_UINT" ->
         [fmt |-> "FMT6_8_UINT", swap |-> "WZYX",
          supported |-> {"FMT_TEXTURE", "FMT_COLOR"}]
    [] format = "R8_UNORM" ->
         [fmt |-> "FMT6_8_UNORM", swap |-> "WZYX",
          supported |-> {"FMT_TEXTURE", "FMT_COLOR"}]
    [] format = "R8G8_UNORM" ->
         [fmt |-> "FMT6_8_8_UNORM", swap |-> "WZYX",
          supported |-> {"FMT_TEXTURE", "FMT_COLOR"}]
    [] format = "R32G32B32A32_SFLOAT" ->
         [fmt |-> "FMT6_32_32_32_32_FLOAT", swap |-> "WZYX",
          supported |-> {"FMT_TEXTURE", "FMT_COLOR"}]
    [] format = "G8_B8R8_2PLANE_420_UNORM" ->
         [fmt |-> "FMT6_R8_G8B8_2PLANE_420_UNORM", swap |-> "WZYX",
          supported |-> {"FMT_TEXTURE"}]
    [] format = "G8_B8_R8_3PLANE_420_UNORM" ->
         [fmt |-> "FMT6_R8_G8_B8_3PLANE_420_UNORM", swap |-> "WZYX",
          supported |-> {"FMT_TEXTURE"}]
    [] format = "G8B8G8R8_422_UNORM" ->
         [fmt |-> "FMT6_R8G8R8B8_422_UNORM", swap |-> "WZYX",
          supported |-> {"FMT_TEXTURE"}]
    [] format \in { "BC1_RGB_UNORM_BLOCK", "BC1_RGB_SRGB_BLOCK" } ->
         [fmt |-> "FMT6_DXT1", swap |-> "WZYX",
          supported |-> {"FMT_TEXTURE"}]
    [] format = "E5B9G9R9_UFLOAT_PACK32" ->
         [fmt |-> "FMT6_9_9_9_E5_FLOAT", swap |-> "WZYX",
          supported |-> {"FMT_TEXTURE"}]
    [] OTHER ->
         [fmt |-> "FMT6_NONE", swap |-> "WZYX", supported |-> {}]

vk_format_is_uint(format) == format = "S8_UINT"
vk_format_is_sint(format) == FALSE
vk_format_is_int(format) == vk_format_is_uint(format) \/ vk_format_is_sint(format)

\* tu_msaa_samples: log2 of the sample count
tu_msaa_samples(samples) ==
  CASE samples = 1 -> 0 [] samples = 2 -> 1 [] samples = 4 -> 2 [] OTHER -> 3

\* tu6_tex_type: cubes are 2D arrays for storage descriptors
tu6_tex_type(viewType, storage) ==
  CASE viewType \in { "1D", "1D_ARRAY" } -> "A6XX_TEX_1D"
    [] viewType \in { "2D", "2D_ARRAY" } -> "A6XX_TEX_2D"
    [] viewType = "3D" -> "A6XX_TEX_3D"
    [] OTHER -> (IF storage THEN "A6XX_TEX_2D" ELSE "A6XX_TEX_CUBE")

\* ~0U and ~0ULL, written as the signed value of the same bits
VK_REMAINING_MIP_LEVELS == -1
VK_REMAINING_ARRAY_LAYERS == -1
VK_WHOLE_SIZE == -1

\* tu_get_levelCount / tu_get_layerCount: VK_REMAINING_* resolved
tu_get_levelCount(img, range) ==
  IF range.levelCount = VK_REMAINING_MIP_LEVELS THEN img.level_count - range.baseMipLevel
                                    ELSE range.levelCount

tu_get_layerCount(img, range) ==
  IF range.layerCount = VK_REMAINING_ARRAY_LAYERS THEN img.layer_count - range.baseArrayLayer
                                    ELSE range.layerCount

RECURSIVE util_logbase2_ceil(_)
util_logbase2_ceil(n) == IF n <= 1 THEN 0 ELSE 1 + util_logbase2_ceil((n + 1) \div 2)

RECURSIVE BitOr(_, _)
BitOr(a, b) ==
  IF a = 0 THEN b
  ELSE IF b = 0 THEN a
  ELSE (IF a % 2 = 1 \/ b % 2 = 1 THEN 1 ELSE 0) + 2 * BitOr(a \div 2, b \div 2)

\* A uint32_t is the pair [h, l] of its 16-bit halves and a uint64_t the pair
\* [hi, lo] of its 32-bit halves.  U32 is the uint32_t of a value below 2^31
\* and Lo32 the value a uint32_t keeps of a sum of two such values.
U32(n) == [h |-> (n \div 65536) % 65536, l |-> n % 65536]

Lo32(v) == (((v \div 65536) % 65536) * 65536) + (v % 65536)

OrU32(a, b) == [h |-> BitOr(a.h, b.h), l |-> BitOr(a.l, b.l)]

\* w / d for a divisor below 2^15
DivU32(w, d) == ((w.h \div d) * 65536) + ((((w.h % d) * 65536) + w.l) \div d)

\* faulty variant: the low half of the sum does not carry into the high half
AddU64_NoCarry(a, n) ==
  LET s0 == a.lo.l + (n % 65536)
      s1 == a.lo.h + (n \div 65536) + (s0 \div 65536)
  IN  [ hi |-> a.hi,
        lo |-> [h |-> s1 % 65536, l |-> s0 % 65536] ]

\* a + n modulo 2^64, for an offset n below 2^31
AddU64(a, n) ==
  LET s0 == a.lo.l + (n % 65536)
      s1 == a.lo.h + (n \div 65536) + (s0 \div 65536)
      s2 == a.hi.l + (s1 \div 65536)
      s3 == a.hi.h + (s2 \div 65536)
  IN  [ hi |-> [h |-> s3 % 65536, l |-> s2 % 65536],
        lo |-> [h |-> s1 % 65536, l |-> s0 % 65536] ]

\* a - n modulo 2^64, for an offset n below 2^31
SubU64(a, n) ==
  LET d0 == a.lo.l - (n % 65536)
      d1 == a.lo.h - (n \div 65536) - (IF d0 < 0 THEN 1 ELSE 0)
      d2 == a.hi.l - (IF d1 < 0 THEN 1 ELSE 0)
      d3 == a.hi.h - (IF d2 < 0 THEN 1 ELSE 0)
  IN  [ hi |-> [h |-> d3 % 65536, l |-> d2 % 65536],
        lo |-> [h |-> d1 % 65536, l |-> d0 % 65536] ]

\* A6XX_TEX_CONST_5_DEPTH / A6XX_IBO_5_DEPTH: bits 17..29 of word 5
A6XX_TEX_CONST_5_DEPTH(d) == (d % 8192) * 131072

----------------------------------------------------------------------------
(* tu_image_view_init: tu_image.c:407-674 *)

\* what memory that was never written holds: whatever was there before
Junk(prior) == [junk |-> prior]

ZeroWord == [value |-> 0]

DescriptorWords == 0 .. 15

\* a struct tu_image_view as vk_object_alloc returns it (not zeroed)
RawImageView(prior) ==
  [ image |-> Junk(prior),
    descriptor |-> Junk(prior),
    storage_descriptor |-> Junk(prior),
    SP_PS_2D_SRC_INFO |-> Junk(prior),
    SP_PS_2D_SRC_SIZE |-> Junk(prior),
    PITCH |-> Junk(prior),
    FLAG_BUFFER_PITCH |-> Junk(prior),
    base_addr |-> Junk(prior),
    ubwc_addr |-> Junk(prior),
    layer_size |-> Junk(prior),
    ubwc_layer_size |-> Junk(prior),
    extent |-> Junk(prior),
    need_y2_align |-> Junk(prior),
    ubwc_enabled |-> Junk(prior),
    RB_MRT_BUF_INFO |-> Junk(prior),
    SP_FS_MRT_REG |-> Junk(prior),
    RB_2D_DST_INFO |-> Junk(prior),
    RB_BLIT_DST_INFO |-> Junk(prior),
    stencil_base_addr |-> Junk(prior),
    stencil_layer_size |-> Junk(prior),
    stencil_PITCH |-> Junk(prior) ]

\* lines 422-434: the asserts on the layer range
ViewRangeAssert(img, range) ==
  IF img.type = "3D"
    THEN range.baseArrayLayer + tu_get_layerCount(img, range)
           <= u_minify(img.extent.depth, range.baseMipLevel)
    ELSE range.baseArrayLayer + tu_get_layerCount(img, range)
           <= img.layer_count

\* lines 468-469: the format the descriptor is built for
ViewFormat(format, aspect_mask) ==
  IF aspect_mask # "COLOR"
    THEN tu6_plane_format(format, tu6_plane_index(format, aspect_mask))
    ELSE format

IsD24S8(format) ==
  format \in { "D24_UNORM_S8_UINT", "X8_D24_UNORM_PACK32" }

\* lines 471-483: fmt.fmt after the D24S8 + UBWC override
ViewFmt(format, ubwc_enabled) ==
  IF IsD24S8(format) /\ ubwc_enabled
    THEN "FMT6_Z24_UNORM_S8_UINT_AS_R8G8B8A8"
    ELSE tu6_native_format(format).fmt

\* faulty variant: lines 485-492 without the limited_z24s8 case of line 490
ViewFmtTex_NoLimited(format, aspect_mask, ubwc_enabled, limited_z24s8) ==
  IF IsD24S8(format)
    THEN IF aspect_mask = "STENCIL"
           THEN "FMT6_Z24_UINT_S8_UINT"
           ELSE IF aspect_mask \in { "DEPTH", "DEPTH_STENCIL" }
                  THEN "FMT6_Z24_UNORM_S8_UINT"
                  ELSE ViewFmt(format, ubwc_enabled)
    ELSE ViewFmt(format, ubwc_enabled)

\* lines 485-492: the format code of the texture descriptor
ViewFmtTex(format, aspect_mask, ubwc_enabled, limited_z24s8) ==
  IF IsD24S8(format)
    THEN IF aspect_mask = "STENCIL"
           THEN (IF limited_z24s8 THEN "FMT6_8_8_8_8_UINT"
                                  ELSE "FMT6_Z24_UINT_S8_UINT")
           ELSE IF aspect_mask \in { "DEPTH", "DEPTH_STENCIL" }
                  THEN "FMT6_Z24_UNORM_S8_UINT"
                  ELSE ViewFmt(format, ubwc_enabled)
    ELSE ViewFmt(format, ubwc_enabled)

\* lines 443-457: storage_depth and the texture descriptor's depth
ViewStorageDepth(img, viewType, range) ==
  IF viewType = "3D" THEN u_minify(img.extent.depth, range.baseMipLevel)
                     ELSE tu_get_layerCount(img, range)

\* faulty variant: lines 450-457 without the division for cubes
ViewDepth_NoCubeDivide(viewType, storage_depth) == storage_depth

ViewDepth(viewType, storage_depth) ==
  IF viewType \in { "CUBE", "CUBE_ARRAY" } THEN storage_depth \div 6
                                           ELSE storage_depth

\* lines 438, 494-509: the texture descriptor before the branches
ViewDescriptorBase(img, mem, pCreateInfo, limited_z24s8) ==
  LET range == pCreateInfo.subresourceRange
      aspect_mask == range.aspectMask
      layout == img.layout[tu6_plane_index(img.vk_format, aspect_mask)]
      format == ViewFormat(pCreateInfo.format, aspect_mask)
      base_addr == AddU64(AddU64(mem.iova, mem.bo_offset),
        fdl_surface_offset(layout, range.baseMipLevel, range.baseArrayLayer))
      ubwc_enabled == fdl_ubwc_enabled(layout, range.baseMipLevel)
      storage_depth == ViewStorageDepth(img, pCreateInfo.viewType, range)
      depth == ViewDepth(pCreateInfo.viewType, storage_depth)
  IN  [ w \in DescriptorWords |->
          CASE w = 0 ->
                 [ TILE_MODE |-> fdl_tile_mode(layout, range.baseMipLevel),
                   SRGB |-> vk_format_is_srgb(format),
                   FMT |-> ViewFmtTex(format, aspect_mask, ubwc_enabled,
                                      limited_z24s8),
                   SAMPLES |-> tu_msaa_samples(img.samples),
                   SWAP |-> tu6_native_format(format).swap,
                   SWIZ |-> tu6_texswiz(pCreateInfo.components,
                                        pCreateInfo.conversion, format,
                                        aspect_mask, limited_z24s8),
                   MIPLVLS |-> tu_get_levelCount(img, range) - 1,
                   CHROMA_MIDPOINT_X |-> FALSE,
                   CHROMA_MIDPOINT_Y |-> FALSE ]
            [] w = 1 ->
                 [ WIDTH |-> u_minify(layout.width0, range.baseMipLevel),
                   HEIGHT |-> u_minify(layout.height0, range.baseMipLevel) ]
            [] w = 2 ->
                 [ PITCHALIGN |-> layout.pitchalign - 6,
                   PITCH |-> fdl_pitch(layout, range.baseMipLevel),
                   TYPE |-> tu6_tex_type(pCreateInfo.viewType, FALSE) ]
            [] w = 3 ->
                 [ ARRAY_PITCH |-> fdl_layer_stride(layout, range.baseMipLevel),
                   FLAG |-> FALSE, TILE_ALL |-> FALSE, MIN_LAYERSZ |-> 0 ]
            [] w = 4 -> [value |-> base_addr.lo]
            [] w = 5 -> [value |-> OrU32(base_addr.hi,
                                         U32(A6XX_TEX_CONST_5_DEPTH(depth)))]
            [] OTHER -> ZeroWord ]

\* lines 511-551: the multi-planar branch
ViewDescriptorYCbCr(desc, img, mem, pCreateInfo, ubwc_enabled) ==
  LET range == pCreateInfo.subresourceRange
      conversion == pCreateInfo.conversion
      base_addr(p) == AddU64(AddU64(mem.iova, mem.bo_offset),
        IF ubwc_enabled
          THEN fdl_ubwc_offset(img.layout[p], range.baseMipLevel,
                               range.baseArrayLayer)
          ELSE fdl_surface_offset(img.layout[p], range.baseMipLevel,
                                  range.baseArrayLayer))
  IN  [ desc EXCEPT
          ![0] = [ @ EXCEPT
                     !.CHROMA_MIDPOINT_X =
                        conversion # NULL /\ conversion.chroma_offsets[1] = "MIDPOINT",
                     !.CHROMA_MIDPOINT_Y =
                        conversion # NULL /\ conversion.chroma_offsets[2] = "MIDPOINT" ],
          ![3] = [ @ EXCEPT !.TILE_ALL = TRUE, !.FLAG = ubwc_enabled ],
          ![4] = [value |-> base_addr(0).lo],
          ![5] = [value |-> OrU32(@.value, base_addr(0).hi)],
          ![6] = [PLANE_PITCH |-> fdl_pitch(img.layout[1], range.baseMipLevel)],
          ![7] = [value |-> base_addr(1).lo],
          ![8] = [value |-> base_addr(1).hi],
          ![9] = [value |-> base_addr(2).lo],
          ![10] = [value |-> base_addr(2).hi] ]

\* lines 553-570: the UBWC fields and MIN_LAYERSZ
ViewDescriptorUbwc(desc, img, layout, mem, pCreateInfo, ubwc_enabled) ==
  LET range == pCreateInfo.subresourceRange
      width == u_minify(layout.width0, range.baseMipLevel)
      height == u_minify(layout.height0, range.baseMipLevel)
      ubwc_addr == AddU64(AddU64(mem.iova, mem.bo_offset),
        fdl_ubwc_offset(layout, range.baseMipLevel, range.baseArrayLayer))
      d1 == IF ubwc_enabled
              THEN [ desc EXCEPT
                       ![3] = [ @ EXCEPT !.FLAG = TRUE, !.TILE_ALL = TRUE ],
                       ![7] = [value |-> ubwc_addr.lo],
                       ![8] = [value |-> ubwc_addr.hi],
                       ![9] = [ FLAG_BUFFER_ARRAY_PITCH |->
                                  layout.ubwc_layer_size \div 4 ],
                       ![10] = [ FLAG_BUFFER_PITCH |->
                                   fdl_ubwc_pitch(layout, range.baseMipLevel),
                                 FLAG_BUFFER_LOGW |-> util_logbase2_ceil(
                                   DIV_ROUND_UP(width, UBWC_BLOCK_W)),
                                 FLAG_BUFFER_LOGH |-> util_logbase2_ceil(
                                   DIV_ROUND_UP(height, UBWC_BLOCK_H)) ] ]
              ELSE desc
  IN  IF pCreateInfo.viewType = "3D"
        THEN [ d1 EXCEPT ![3] = [ @ EXCEPT !.MIN_LAYERSZ =
                 layout.slices[img.level_count - 1].size0 ] ]
        ELSE d1

\* lines 609-634: the storage descriptor
ViewStorageDescriptor(img, layout, mem, pCreateInfo, format, ubwc_enabled) ==
  LET range == pCreateInfo.subresourceRange
      base_addr == AddU64(AddU64(mem.iova, mem.bo_offset),
        fdl_surface_offset(layout, range.baseMipLevel, range.baseArrayLayer))
      ubwc_addr == AddU64(AddU64(mem.iova, mem.bo_offset),
        fdl_ubwc_offset(layout, range.baseMipLevel, range.baseArrayLayer))
      storage_depth == ViewStorageDepth(img, pCreateInfo.viewType, range)
  IN  [ w \in DescriptorWords |->
          CASE w = 0 ->
                 [ FMT |-> ViewFmt(format, ubwc_enabled),
                   TILE_MODE |-> fdl_tile_mode(layout, range.baseMipLevel) ]
            [] w = 1 ->
                 [ WIDTH |-> u_minify(layout.width0, range.baseMipLevel),
                   HEIGHT |-> u_minify(layout.height0, range.baseMipLevel) ]
            [] w = 2 ->
                 [ PITCH |-> fdl_pitch(layout, range.baseMipLevel),
                   TYPE |-> tu6_tex_type(pCreateInfo.viewType, TRUE) ]
            [] w = 3 ->
                 [ ARRAY_PITCH |-> fdl_layer_stride(layout, range.baseMipLevel),
                   FLAG |-> ubwc_enabled, UNK27 |-> ubwc_enabled ]
            [] w = 4 -> [value |-> base_addr.lo]
            [] w = 5 -> [value |-> OrU32(base_addr.hi,
                                  U32(A6XX_TEX_CONST_5_DEPTH(storage_depth)))]
            [] w = 7 /\ ubwc_enabled -> [value |-> ubwc_addr.lo]
            [] w = 8 /\ ubwc_enabled -> [value |-> ubwc_addr.hi]
            [] w = 9 /\ ubwc_enabled ->
                 [ FLAG_BUFFER_ARRAY_PITCH |-> layout.ubwc_layer_size \div 4 ]
            [] w = 10 /\ ubwc_enabled ->
                 [ FLAG_BUFFER_PITCH |->
                     fdl_ubwc_pitch(layout, range.baseMipLevel) ]
            [] OTHER -> ZeroWord ]

ViewNeedY2Align_AnyLevel(tile_mode, range, img) ==
  tile_mode = TILE6_LINEAR

\* lines 638-639: a linear level other than the last one of the image
ViewNeedY2Align(tile_mode, range, img) ==
  /\ tile_mode = TILE6_LINEAR
  /\ range.baseMipLevel # img.level_count - 1

\* the whole of tu_image_view_init on the memory iview; end is "done" or
\* "assert" (a failed assert of lines 425-430, 514, 548 or 549)
tu_image_view_init(iview, img, mem, pCreateInfo, limited_z24s8) ==
  LET range == pCreateInfo.subresourceRange
      aspect_mask == range.aspectMask
      layout == img.layout[tu6_plane_index(img.vk_format, aspect_mask)]
      width == u_minify(layout.width0, range.baseMipLevel)
      height == u_minify(layout.height0, range.baseMipLevel)
      base_addr == AddU64(AddU64(mem.iova, mem.bo_offset),
        fdl_surface_offset(layout, range.baseMipLevel, range.baseArrayLayer))
      ubwc_addr == AddU64(AddU64(mem.iova, mem.bo_offset),
        fdl_ubwc_offset(layout, range.baseMipLevel, range.baseArrayLayer))
      pitch == fdl_pitch(layout, range.baseMipLevel)
      ubwc_pitch == fdl_ubwc_pitch(layout, range.baseMipLevel)
      layer_size == fdl_layer_stride(layout, range.baseMipLevel)
      format == ViewFormat(pCreateInfo.format, aspect_mask)
      fmt == tu6_native_format(format)
      tile_mode == fdl_tile_mode(layout, range.baseMipLevel)
      ubwc_enabled == fdl_ubwc_enabled(layout, range.baseMipLevel)
      desc0 == ViewDescriptorBase(img, mem, pCreateInfo, limited_z24s8)
      v0 == [iview EXCEPT !.image = [handle |-> "image"]]
  IN
  IF ~ViewRangeAssert(img, range)
    THEN [end |-> "assert", iview |-> iview]
  ELSE IF IsYCbCr420(format)
    THEN [ end |-> IF /\ tu_get_levelCount(img, range) = 1
                      /\ pCreateInfo.viewType # "3D"
                      /\ "STORAGE" \notin img.usage
                     THEN "done" ELSE "assert",
           iview |-> [ v0 EXCEPT !.descriptor =
                         ViewDescriptorYCbCr(desc0, img, mem, pCreateInfo,
                                             ubwc_enabled) ] ]
  ELSE
    LET v1 == [ v0 EXCEPT
                  !.descriptor =
                     ViewDescriptorUbwc(desc0, img, layout, mem, pCreateInfo,
                                        ubwc_enabled),
                  !.SP_PS_2D_SRC_INFO =
                     [ color_format |-> ViewFmt(format, ubwc_enabled),
                       tile_mode |-> tile_mode,
                       color_swap |-> fmt.swap,
                       flags |-> ubwc_enabled,
                       srgb |-> vk_format_is_srgb(format),
                       samples |-> tu_msaa_samples(img.samples),
                       samples_average |->
                         /\ img.samples > 1
                         /\ ~vk_format_is_int(format)
                         /\ ~vk_format_is_depth_or_stencil(format),
                       unk20 |-> TRUE, unk22 |-> TRUE ],
                  !.SP_PS_2D_SRC_SIZE = [width |-> width, height |-> height],
                  !.PITCH = [pitch |-> pitch],
                  !.FLAG_BUFFER_PITCH =
                     [ pitch |-> ubwc_pitch,
                       array_pitch |-> layout.ubwc_layer_size \div 4 ],
                  !.base_addr = [value |-> base_addr],
                  !.ubwc_addr = [value |-> ubwc_addr],
                  !.layer_size = [value |-> layer_size],
                  !.ubwc_layer_size = [value |-> layout.ubwc_layer_size] ]
    IN
    IF "FMT_COLOR" \notin fmt.supported
      THEN [end |-> "done", iview |-> v1]
      ELSE
        LET cfmt == ViewFmt(format, ubwc_enabled)
            v2 == [ v1 EXCEPT
                      !.storage_descriptor =
                         IF "STORAGE" \in img.usage
                           THEN ViewStorageDescriptor(img, layout, mem,
                                  pCreateInfo, format, ubwc_enabled)
                           ELSE @,
                      !.extent = [width |-> width, height |-> height],
                      !.need_y2_align =
                         [ value |-> ViewNeedY2Align(tile_mode, range, img) ],
                      !.ubwc_enabled = [value |-> ubwc_enabled],
                      !.RB_MRT_BUF_INFO =
                         [ color_tile_mode |-> tile_mode,
                           color_format |-> cfmt, color_swap |-> fmt.swap ],
                      !.SP_FS_MRT_REG =
                         [ color_format |-> cfmt,
                           color_sint |-> vk_format_is_sint(format),
                           color_uint |-> vk_format_is_uint(format) ],
                      !.RB_2D_DST_INFO =
                         [ color_format |-> cfmt, tile_mode |-> tile_mode,
                           color_swap |-> fmt.swap, flags |-> ubwc_enabled,
                           srgb |-> vk_format_is_srgb(format) ],
                      !.RB_BLIT_DST_INFO =
                         [ tile_mode |-> tile_mode,
                           samples |-> tu_msaa_samples(img.samples),
                           color_format |-> cfmt, color_swap |-> fmt.swap,
                           flags |-> ubwc_enabled ] ]
            l1 == img.layout[1]
        IN  [ end |-> "done",
              iview |->
                IF img.vk_format = "D32_SFLOAT_S8_UINT"
                  THEN [ v2 EXCEPT
                           !.stencil_base_addr =
                              [ value |-> AddU64(AddU64(mem.iova, mem.bo_offset),
                                  fdl_surface_offset(l1, range.baseMipLevel,
                                                     range.baseArrayLayer)) ],
                           !.stencil_layer_size =
                              [ value |-> fdl_layer_stride(l1, range.baseMipLevel) ],
                           !.stencil_PITCH =
                              [ pitch |-> fdl_pitch(l1, range.baseMipLevel) ] ]
                  ELSE v2 ]

----------------------------------------------------------------------------
(* tu_buffer_view_init: tu_image.c:828-874 *)

RawBufferView(prior) == [buffer |-> Junk(prior), descriptor |-> Junk(prior)]

\* faulty variant: lines 841-846 taking the whole buffer for VK_WHOLE_SIZE
BufferViewElements_NoOffset(buffer, pCreateInfo) ==
  LET range == IF pCreateInfo.range = VK_WHOLE_SIZE
                 THEN buffer.size.lo
                 ELSE U32(Lo32(pCreateInfo.range))
  IN  DivU32(range, util_format_get_blocksize(pCreateInfo.format))

\* lines 841-846
BufferViewElements(buffer, pCreateInfo) ==
  LET range == IF pCreateInfo.range = VK_WHOLE_SIZE
                 THEN SubU64(buffer.size, pCreateInfo.offset).lo
                 ELSE U32(Lo32(pCreateInfo.range))
  IN  DivU32(range, util_format_get_blocksize(pCreateInfo.format))

\* the components mapping of lines 848-853
BufferViewComponents == [r |-> "R", g |-> "G", b |-> "B", a |-> "A"]

\* line 865: the expression statement COND(vk_format_is_srgb(vfmt), ...)
\* follows the ';' that ends the assignment of descriptor[0]; its value is
\* discarded
BufferViewSrgbBit(vfmt) == FALSE

tu_buffer_view_init(view, buffer, pCreateInfo) ==
  LET vfmt == pCreateInfo.format
      fmt == tu6_native_format(vfmt)
      elements == BufferViewElements(buffer, pCreateInfo)
      iova == AddU64(buffer.iova, pCreateInfo.offset)
  IN  [ view EXCEPT
          !.buffer = [handle |-> "buffer"],
          !.descriptor = [ w \in DescriptorWords |->
             CASE w = 0 ->
                    [ TILE_MODE |-> TILE6_LINEAR,
                      SWAP |-> fmt.swap,
                      FMT |-> fmt.fmt,
                      MIPLVLS |-> 0,
                      SWIZ |-> tu6_texswiz(BufferViewComponents, NULL, vfmt,
                                           "COLOR", FALSE),
                      SRGB |-> BufferViewSrgbBit(vfmt) ]
               [] w = 1 ->
                    [ WIDTH |-> elements % 32768,
                      HEIGHT |-> elements \div 32768 ]
               [] w = 2 -> [UNK4 |-> TRUE, UNK31 |-> TRUE]
               [] w = 4 -> [value |-> iova.lo]
               [] w = 5 -> [value |-> iova.hi]
               [] OTHER -> ZeroWord ] ]

----------------------------------------------------------------------------
(* Inputs the calls are explored with *)

Extents ==
  { [width |-> 5, height |-> 3, depth |-> 1],
    [width |-> 32, height |-> 16, depth |-> 1],
    [width |-> 4, height |-> 4, depth |-> 2] }

Tilings == { "LINEAR", "OPTIMAL", "DRM_FORMAT_MODIFIER_EXT" }

Usages == { {"TRANSFER_SRC"}, {"STORAGE"}, {"SAMPLED"}, {"INPUT_ATTACHMENT"} }

CreateFlags == { {}, {"MUTABLE_FORMAT"} }

CreateInfos ==
  { [ imageType |-> IF e.depth > 1 THEN "3D" ELSE "2D",
      format |-> f, tiling |-> t, usage |-> u, flags |-> fl, extent |-> e,
      mipLevels |-> m, arrayLayers |-> a, samples |-> 1 ] :
      f \in ImageFormats, t \in Tilings, u \in Usages, fl \in CreateFlags,
      e \in Extents, m \in 1 .. MaxMipLevels, a \in 1 .. MaxArrayLayers }

\* VkSubresourceLayout entries of an explicit layout: a feasible one, one at
\* a non-zero offset, and one whose pitch is not 64-byte aligned
GoodPlane == [offset |-> 0, rowPitch |-> 128]
OffsetPlane == [offset |-> 4096, rowPitch |-> 128]
BadPlane == [offset |-> 0, rowPitch |-> 100]

PlaneLayoutChoices ==
  { <<GoodPlane, GoodPlane, GoodPlane>>,
    <<OffsetPlane, GoodPlane, GoodPlane>>,
    <<BadPlane, GoodPlane, GoodPlane>>,
    <<GoodPlane, BadPlane, GoodPlane>> }

NoPNext ==
  [ kind |-> "none", mods |-> <<>>, modifier |-> DRM_FORMAT_MOD_INVALID,
    planes |-> <<>>, scanout |-> FALSE ]

PNexts(tiling) ==
  IF tiling = "DRM_FORMAT_MODIFIER_EXT"
    THEN { [NoPNext EXCEPT !.kind = "mod_list", !.mods = ms] :
             ms \in { <<DRM_FORMAT_MOD_LINEAR>>,
                      <<DRM_FORMAT_MOD_QCOM_COMPRESSED,
                        DRM_FORMAT_MOD_LINEAR>> } }
         \cup
         { [NoPNext EXCEPT !.kind = "explicit", !.modifier = m, !.planes = pl] :
             m \in { DRM_FORMAT_MOD_LINEAR, DRM_FORMAT_MOD_QCOM_COMPRESSED },
             pl \in PlaneLayoutChoices }
    ELSE { NoPNext, [NoPNext EXCEPT !.kind = "wsi", !.scanout = TRUE] }

NoCall == [op |-> "none"]

----------------------------------------------------------------------------
(* The state machine *)

Init ==
  /\ dev \in [noubwc : BOOLEAN, limited_z24s8 : BOOLEAN]
  /\ pc = "idle"
  /\ args = NULL
  /\ image = NULL
  /\ image_frees = 0
  /\ pImage = "unwritten"
  /\ result = "NONE"
  /\ call = NoCall
  /\ bo = [iova |-> [hi |-> U32(1), lo |-> U32(1048576)], bo_offset |-> 4096]
  /\ image_view = NULL
  /\ buffer_view = NULL

\* aspects a caller may name for an image of the format
ValidAspects(format) ==
  CASE format \in { "D24_UNORM_S8_UINT", "D32_SFLOAT_S8_UINT" } ->
         { "DEPTH", "STENCIL" }
    [] format = "S8_UINT" -> { "STENCIL" }
    [] format = "G8_B8R8_2PLANE_420_UNORM" -> { "COLOR", "PLANE_0", "PLANE_1" }
    [] format = "G8_B8_R8_3PLANE_420_UNORM" ->
         { "COLOR", "PLANE_0", "PLANE_1", "PLANE_2" }
    [] OTHER -> { "COLOR" }

\* tu_CreateImage (tu_image.c:676-724) calling tu_image_create (84-296),
\* explored over the create infos cis and the allocation outcomes allocs
CreateImage(cis, allocs) ==
  /\ pc = "idle"
  /\ \E pCreateInfo \in cis, alloc_ok \in allocs :
       \E pNext \in PNexts(pCreateInfo.tiling) :
         LET a == CreateImageArgs(pCreateInfo, pNext)
             r == tu_image_create(dev, pCreateInfo, a.modifier,
                                  a.plane_layouts, alloc_ok)
         IN  /\ args' = [ pCreateInfo |-> pCreateInfo,
                          modifier |-> a.modifier,
                          plane_layouts |-> a.plane_layouts,
                          alloc_ok |-> alloc_ok ]
             /\ image' = r.image
             /\ image_frees' = r.frees
             /\ pImage' = r.pImage
             /\ result' = r.status
             /\ pc' = CASE r.status = VK_SUCCESS -> "created"
                        [] r.status = "ASSERT" -> "aborted"
                        [] OTHER -> "failed"
  /\ call' = NoCall
  /\ UNCHANGED <<dev, bo, image_view, buffer_view>>

tu_CreateImage == CreateImage(CreateInfos, BOOLEAN)

\* tu_DestroyImage (tu_image.c:726-741), for the image a create returned
tu_DestroyImage ==
  /\ pc = "created"
  /\ image # NULL
  /\ image_view = NULL
  /\ image' = NULL
  /\ image_frees' = image_frees + 1
  /\ pc' = "idle"
  /\ args' = NULL
  /\ pImage' = "unwritten"
  /\ result' = "NONE"
  /\ call' = NoCall
  /\ UNCHANGED <<dev, bo, image_view, buffer_view>>

\* the caller takes note of a failed create and goes on
Retry ==
  /\ pc = "failed"
  /\ pc' = "idle"
  /\ args' = NULL
  /\ image_frees' = 0
  /\ result' = "NONE"
  /\ UNCHANGED <<dev, image, pImage, call, bo, image_view, buffer_view>>

\* faulty variant: lines 755-767 reporting the layer stride as the row pitch
SubresourceLayout_StridePitch(img, pSubresource) ==
  LET layout == img.layout[tu6_plane_index(img.vk_format,
                                           pSubresource.aspectMask)]
      slice == layout.slices[pSubresource.mipLevel]
      ubwc == fdl_ubwc_enabled(layout, pSubresource.mipLevel)
  IN  [ offset |-> IF ubwc THEN 0
                   ELSE fdl_surface_offset(layout, pSubresource.mipLevel,
                                           pSubresource.arrayLayer),
        size |-> slice.size0,
        rowPitch |-> fdl_layer_stride(layout, pSubresource.mipLevel),
        arrayPitch |-> fdl_layer_stride(layout, pSubresource.mipLevel),
        depthPitch |-> slice.size0,
        assert_ok |-> ubwc => (img.level_count = 1 /\ img.layer_count = 1) ]

\* faulty variant: lines 755-767 without the offset reset of line 764
SubresourceLayout_KeepsOffset(img, pSubresource) ==
  LET layout == img.layout[tu6_plane_index(img.vk_format,
                                           pSubresource.aspectMask)]
      slice == layout.slices[pSubresource.mipLevel]
      ubwc == fdl_ubwc_enabled(layout, pSubresource.mipLevel)
  IN  [ offset |-> fdl_surface_offset(layout, pSubresource.mipLevel,
                                      pSubresource.arrayLayer),
        size |-> slice.size0,
        rowPitch |-> fdl_pitch(layout, pSubresource.mipLevel),
        arrayPitch |-> fdl_layer_stride(layout, pSubresource.mipLevel),
        depthPitch |-> slice.size0,
        assert_ok |-> ubwc => (img.level_count = 1 /\ img.layer_count = 1) ]

\* tu_image.c:755-767: the VkSubresourceLayout written, and whether the
\* assert of line 766 holds
SubresourceLayout(img, pSubresource) ==
  LET layout == img.layout[tu6_plane_index(img.vk_format,
                                           pSubresource.aspectMask)]
      slice == layout.slices[pSubresource.mipLevel]
      ubwc == fdl_ubwc_enabled(layout, pSubresource.mipLevel)
  IN  [ offset |-> IF ubwc THEN 0
                   ELSE fdl_surface_offset(layout, pSubresource.mipLevel,
                                           pSubresource.arrayLayer),
        size |-> slice.size0,
        rowPitch |-> fdl_pitch(layout, pSubresource.mipLevel),
        arrayPitch |-> fdl_layer_stride(layout, pSubresource.mipLevel),
        depthPitch |-> slice.size0,
        assert_ok |-> ubwc => (img.level_count = 1 /\ img.layer_count = 1) ]

\* tu_GetImageSubresourceLayout (tu_image.c:743-768), explored over the mip
\* levels and array layers up to maxMip and maxLayer; the caller asks before
\* it creates a view of the image
GetImageSubresourceLayout(maxMip, maxLayer) ==
  /\ pc = "created"
  /\ image_view = NULL
  /\ \E aspect \in ValidAspects(image.vk_format),
        mip \in 0 .. Min2(maxMip, image.level_count - 1),
        layer \in 0 .. Min2(maxLayer, image.layer_count - 1) :
       LET sub == [aspectMask |-> aspect, mipLevel |-> mip,
                   arrayLayer |-> layer]
           out == SubresourceLayout(image, sub)
       IN  /\ call' = [op |-> "GetImageSubresourceLayout", in |-> sub,
                       out |-> out]
           /\ pc' = IF out.assert_ok THEN "created" ELSE "aborted"
  /\ UNCHANGED <<dev, args, image, image_frees, pImage, result, bo, image_view,
                 buffer_view>>

tu_GetImageSubresourceLayout ==
  GetImageSubresourceLayout(MaxMipLevels, MaxArrayLayers)

\* faulty variant: lines 782-787 with the tile_mode test of line 782 inverted
ImageModifier_Inverted(img) ==
  IF img.layout[0].tile_mode # 0
    THEN DRM_FORMAT_MOD_LINEAR
    ELSE IF img.layout[0].ubwc_layer_size # 0
           THEN DRM_FORMAT_MOD_QCOM_COMPRESSED
           ELSE DRM_FORMAT_MOD_INVALID

\* tu_image.c:782-787
ImageModifier(img) ==
  IF img.layout[0].tile_mode = 0
    THEN DRM_FORMAT_MOD_LINEAR
    ELSE IF img.layout[0].ubwc_layer_size # 0
           THEN DRM_FORMAT_MOD_QCOM_COMPRESSED
           ELSE DRM_FORMAT_MOD_INVALID

\* tu_GetImageDrmFormatModifierPropertiesEXT (tu_image.c:770-790)
tu_GetImageDrmFormatModifierPropertiesEXT ==
  /\ pc = "created"
  /\ call' = [op |-> "GetImageDrmFormatModifierPropertiesEXT",
              out |-> [drmFormatModifier |-> ImageModifier(image)]]
  /\ UNCHANGED <<dev, pc, args, image, image_frees, pImage, result, bo, image_view,
                 buffer_view>>

Next ==
  \/ tu_CreateImage
  \/ tu_DestroyImage
  \/ Retry
  \/ tu_GetImageSubresourceLayout
  \/ tu_GetImageDrmFormatModifierPropertiesEXT

Spec == Init /\ [][Next]_vars

----------------------------------------------------------------------------
(* Image views *)

IdentityComponents ==
  [r |-> "IDENTITY", g |-> "IDENTITY", b |-> "IDENTITY", a |-> "IDENTITY"]

SwappedComponents == [r |-> "B", g |-> "IDENTITY", b |-> "R", a |-> "ONE"]

\* a struct tu_sampler_ycbcr_conversion
MidpointConversion ==
  [ components |-> IdentityComponents,
    chroma_offsets |-> <<"MIDPOINT", "COSITED_EVEN">> ]

Conversions(format) ==
  IF format \in YCbCr420Formats THEN { NULL, MidpointConversion } ELSE { NULL }

\* the view types that go with the image and the layers asked for: cube
\* views need a cube-compatible image and a multiple of six layers
ViewTypes(img, range) ==
  IF img.type = "3D" THEN { "3D" }
  ELSE IF range.layerCount = 1 THEN { "2D" }
  ELSE { "2D_ARRAY" } \cup
       ( IF "CUBE_COMPATIBLE" \notin img.flags THEN {}
         ELSE IF tu_get_layerCount(img, range) = 6 THEN { "CUBE" }
         ELSE IF tu_get_layerCount(img, range) % 6 = 0 THEN { "CUBE_ARRAY" }
         ELSE {} )

\* the subresource ranges a caller may name, starting at the layers bases
ViewRanges(img, bases) ==
  { [ aspectMask |-> aspect, baseMipLevel |-> mip, levelCount |-> lc,
      baseArrayLayer |-> base, layerCount |-> yc ] :
      aspect \in ValidAspects(img.vk_format),
      mip \in 0 .. (img.level_count - 1),
      lc \in { 1, VK_REMAINING_MIP_LEVELS },
      base \in { b \in bases : b < img.layer_count },
      yc \in { 1, VK_REMAINING_ARRAY_LAYERS } }

\* the VkImageViewCreateInfo values a caller may pass for the image
ViewCreateInfos(img, comps, bases) ==
  UNION { { [ format |-> img.vk_format,
              viewType |-> vt,
              components |-> c,
              conversion |-> cv,
              subresourceRange |-> range ] :
            c \in comps,
            cv \in Conversions(img.vk_format),
            vt \in ViewTypes(img, range) } :
          range \in ViewRanges(img, bases) }

\* the values memory handed out by the allocator may hold
PriorMemory == { 0, 1 }

\* tu_CreateImageView (tu_image.c:793-812), explored over the component
\* mappings comps and the base layers bases
CreateImageView(comps, bases) ==
  /\ pc = "created"
  /\ image_view = NULL
  /\ \/ \* line 804: vk_object_alloc returned NULL
        /\ call' = [ op |-> "CreateImageView",
                     result |-> VK_ERROR_OUT_OF_HOST_MEMORY ]
        /\ UNCHANGED <<image_view, pc>>
     \/ \E pCreateInfo \in ViewCreateInfos(image, comps, bases), prior \in PriorMemory :
          LET r == tu_image_view_init(RawImageView(prior), image, bo,
                                      pCreateInfo, dev.limited_z24s8)
          IN  /\ image_view' = r.iview
              /\ pc' = IF r.end = "done" THEN "created" ELSE "aborted"
              /\ call' = [ op |-> "CreateImageView", in |-> pCreateInfo,
                           prior |-> prior,
                           result |-> IF r.end = "done" THEN VK_SUCCESS
                                                        ELSE "ASSERT" ]
  /\ UNCHANGED <<dev, args, image, image_frees, pImage, result, bo, buffer_view>>

tu_CreateImageView == CreateImageView({ IdentityComponents }, { 0 })

\* tu_DestroyImageView (tu_image.c:814-826)
tu_DestroyImageView ==
  /\ pc = "created"
  /\ image_view # NULL
  /\ image_view' = NULL
  /\ call' = NoCall
  /\ UNCHANGED <<dev, pc, args, image, image_frees, pImage, result, bo,
                 buffer_view>>

\* the images the view specification creates
ViewImageInfos ==
  { ci \in CreateInfos :
      /\ ci.tiling = "OPTIMAL"
      /\ ci.usage \in { {"SAMPLED"}, {"STORAGE"} }
      /\ ci.flags = {}
      /\ ci.extent.width # 5 }

NextView ==
  \/ CreateImage(ViewImageInfos, {TRUE})
  \/ tu_DestroyImage
  \/ GetImageSubresourceLayout(0, 0)
  \/ tu_CreateImageView
  \/ tu_DestroyImageView

SpecView == Init /\ [][NextView]_vars

----------------------------------------------------------------------------
(* Buffer views *)

BufferFormats == { "R8G8B8A8_UNORM", "R8G8B8A8_SRGB", "R32G32B32A32_SFLOAT" }

\* the value of a uint32_t below 2^31
WordValue(w) == (w.h * 65536) + w.l

\* struct tu_buffer: size and GPU address; the last buffer is larger than
\* 4 GiB, and the address of the one before it, plus an offset of 4096,
\* carries into the high half
Buffers ==
  { [ size |-> [hi |-> U32(0), lo |-> U32(256)],
      iova |-> [hi |-> U32(0), lo |-> U32(2097152)] ],
    [ size |-> [hi |-> U32(0), lo |-> U32(2097152)],
      iova |-> [hi |-> U32(0), lo |-> [h |-> 65535, l |-> 61440]] ],
    [ size |-> [hi |-> U32(1), lo |-> U32(64)],
      iova |-> [hi |-> U32(1), lo |-> U32(4096)] ] }

\* the VkBufferViewCreateInfo values a caller may pass: the view lies within
\* the buffer
BufferViewCreateInfos(buffer) ==
  { ci \in [ format : BufferFormats, offset : { 0, 16, 64, 4096 },
             range : { VK_WHOLE_SIZE, 16, 64, 128, 1048576 } ] :
      \/ buffer.size.hi # U32(0)
      \/ /\ ci.offset < WordValue(buffer.size.lo)
         /\ ci.range # VK_WHOLE_SIZE =>
              ci.offset + ci.range <= WordValue(buffer.size.lo) }

\* tu_CreateBufferView (tu_image.c:876-895)
tu_CreateBufferView ==
  /\ pc = "idle"
  /\ buffer_view = NULL
  /\ \/ \* line 887: vk_object_alloc returned NULL
        /\ call' = [ op |-> "CreateBufferView",
                     result |-> VK_ERROR_OUT_OF_HOST_MEMORY ]
        /\ UNCHANGED buffer_view
     \/ \E buffer \in Buffers, prior \in PriorMemory :
          \E pCreateInfo \in BufferViewCreateInfos(buffer) :
            /\ call' = [ op |-> "CreateBufferView", in |-> pCreateInfo,
                         buffer |-> buffer, prior |-> prior,
                         result |-> VK_SUCCESS ]
            /\ buffer_view' = tu_buffer_view_init(RawBufferView(prior),
                                                  buffer, pCreateInfo)
  /\ UNCHANGED <<dev, pc, args, image, image_frees, pImage, result, bo, image_view>>

\* tu_DestroyBufferView (tu_image.c:897-909)
tu_DestroyBufferView ==
  /\ buffer_view # NULL
  /\ buffer_view' = NULL
  /\ call' = NoCall
  /\ UNCHANGED <<dev, pc, args, image, image_frees, pImage, result, bo, image_view>>

NextBuf ==
  \/ tu_CreateBufferView
  \/ tu_DestroyBufferView

SpecBuf == Init /\ [][NextBuf]_vars
----------------------------------------------------------------------------
(* Views of single-plane images bound anywhere in the 64-bit address space *)

\* image->bo->iova and image->bo_offset: an ordinary address, one whose low
\* half carries into the high half, one that wraps at 2^64, one above 2^49
\* and one with a large bind offset
BoChoices ==
  { [ iova |-> [hi |-> U32(1), lo |-> U32(1048576)], bo_offset |-> 4096 ],
    [ iova |-> [hi |-> U32(0), lo |-> [h |-> 65535, l |-> 61440]],
      bo_offset |-> 4096 ],
    [ iova |-> [hi |-> [h |-> 65535, l |-> 65535],
                lo |-> [h |-> 65535, l |-> 61440]],
      bo_offset |-> 4096 ],
    [ iova |-> [hi |-> [h |-> 2, l |-> 7], lo |-> U32(65536)],
      bo_offset |-> 0 ],
    [ iova |-> [hi |-> U32(3), lo |-> [h |-> 49152, l |-> 0]],
      bo_offset |-> 1073741824 ] }

AddrImageInfos ==
  { ci \in CreateInfos :
      /\ ci.format \in { "R8G8B8A8_UNORM", "D24_UNORM_S8_UINT" }
      /\ ci.tiling \in { "LINEAR", "OPTIMAL" }
      /\ ci.usage = {"SAMPLED"}
      /\ ci.flags = {}
      /\ ci.extent.width # 5 }

InitAddr ==
  /\ dev \in [noubwc : BOOLEAN, limited_z24s8 : {FALSE}]
  /\ pc = "idle"
  /\ args = NULL
  /\ image = NULL
  /\ image_frees = 0
  /\ pImage = "unwritten"
  /\ result = "NONE"
  /\ call = NoCall
  /\ bo \in BoChoices
  /\ image_view = NULL
  /\ buffer_view = NULL

NextAddr ==
  \/ CreateImage(AddrImageInfos, {TRUE})
  \/ tu_DestroyImage
  \/ CreateImageView({ IdentityComponents }, 0 .. (MaxArrayLayers - 1))
  \/ tu_DestroyImageView

SpecAddr == InitAddr /\ [][NextAddr]_vars

----------------------------------------------------------------------------
(* compose_swizzle and tu6_texswiz on their own *)

MaxSwizzleStride == 3

\* VkComponentSwizzle in the order of its values
ComponentSwizzles == <<"IDENTITY", "ZERO", "ONE", "R", "G", "B", "A">>

\* a mapping that starts at swizzle k and steps by stride from r to a
SteppedMapping(k, stride) ==
  [ r |-> ComponentSwizzles[(k % 7) + 1],
    g |-> ComponentSwizzles[((k + stride) % 7) + 1],
    b |-> ComponentSwizzles[((k + (2 * stride)) % 7) + 1],
    a |-> ComponentSwizzles[((k + (3 * stride)) % 7) + 1] ]

\* the VkComponentMapping values explored: every swizzle at every position
Mappings ==
  { IdentityComponents, BufferViewComponents, SwappedComponents } \cup
  { SteppedMapping(k, stride) : k \in 0 .. 6, stride \in 1 .. MaxSwizzleStride }

\* the swiz[] arrays compose_swizzle is given: the seeds of lines 332-364
\* and one made of every kind of element
BaseSwizzles ==
  { <<"X", "Y", "Z", "W">>, <<"Z", "X", "Y", "W">>, <<"X", "Y", "Z", "ONE">>,
    <<"W", "ZERO", "Z", "W">>, <<"Y", "ZERO", "Z", "W">>,
    <<"ONE", "W", "ZERO", "X">> }

\* the format and aspect tu6_texswiz is called for
TexSwizFormats ==
  { [format |-> "R8G8B8A8_UNORM", aspect_mask |-> "COLOR"],
    [format |-> "G8_B8R8_2PLANE_420_UNORM", aspect_mask |-> "COLOR"],
    [format |-> "BC1_RGB_UNORM_BLOCK", aspect_mask |-> "COLOR"],
    [format |-> "D24_UNORM_S8_UINT", aspect_mask |-> "STENCIL"],
    [format |-> "D24_UNORM_S8_UINT", aspect_mask |-> "DEPTH"] }

InitSwiz ==
  /\ dev \in [noubwc : {FALSE}, limited_z24s8 : BOOLEAN]
  /\ pc = "idle"
  /\ args \in [swiz : BaseSwizzles, m1 : Mappings, m2 : Mappings]
  /\ image = NULL
  /\ image_frees = 0
  /\ pImage = "unwritten"
  /\ result = "NONE"
  /\ call = NoCall
  /\ bo = [iova |-> [hi |-> U32(1), lo |-> U32(1048576)], bo_offset |-> 4096]
  /\ image_view = NULL
  /\ buffer_view = NULL

\* compose_swizzle (tu_image.c:298-323) applied to swiz with m1, then with m2
ComposeSwizzle ==
  /\ pc = "idle"
  /\ pc' = "composed"
  /\ call' = [ op |-> "compose_swizzle",
               once |-> compose_swizzle(args.swiz, args.m1),
               twice |-> compose_swizzle(compose_swizzle(args.swiz, args.m1),
                                         args.m2) ]
  /\ UNCHANGED <<dev, args, image, image_frees, pImage, result, bo, image_view,
                 buffer_view>>

\* tu6_texswiz (tu_image.c:325-374) with the user mapping m1 and, when there
\* is a conversion, its mapping m2
TexSwiz ==
  /\ pc = "idle"
  /\ pc' = "composed"
  /\ \E f \in TexSwizFormats, has_conversion \in BOOLEAN :
       LET conversion == IF has_conversion
                           THEN [MidpointConversion EXCEPT
                                   !.components = args.m2]
                           ELSE NULL
       IN  call' = [ op |-> "tu6_texswiz", format |-> f.format,
                     aspect_mask |-> f.aspect_mask,
                     conversion |-> conversion,
                     out |-> tu6_texswiz(args.m1, conversion, f.format,
                                         f.aspect_mask, dev.limited_z24s8) ]
  /\ UNCHANGED <<dev, args, image, image_frees, pImage, result, bo, image_view,
                 buffer_view>>

NextSwiz ==
  \/ ComposeSwizzle
  \/ TexSwiz

SpecSwiz == InitSwiz /\ [][NextSwiz]_vars

----------------------------------------------------------------------------
(* Cube, array and 3D views *)

MaxCubes == 2

\* cube-compatible images of whole cubes, and a 3D image next to them
CubeImageInfos ==
  { [ imageType |-> "2D", format |-> "R8G8B8A8_UNORM", tiling |-> "OPTIMAL",
      usage |-> u, flags |-> {"CUBE_COMPATIBLE"},
      extent |-> [width |-> 16, height |-> 16, depth |-> 1],
      mipLevels |-> m, arrayLayers |-> 6 * n, samples |-> 1 ] :
      u \in { {"SAMPLED"}, {"STORAGE"} }, m \in 1 .. MaxMipLevels,
      n \in 1 .. MaxCubes }
  \cup
  { ci \in CreateInfos :
      /\ ci.format = "R8G8B8A8_UNORM"
      /\ ci.tiling = "OPTIMAL"
      /\ ci.usage \in { {"SAMPLED"}, {"STORAGE"} }
      /\ ci.flags = {}
      /\ ci.extent.depth > 1
      /\ ci.arrayLayers = 1 }

\* the first layer of every cube
CubeBases == { 6 * k : k \in 0 .. (MaxCubes - 1) }

NextCube ==
  \/ CreateImage(CubeImageInfos, {TRUE})
  \/ tu_DestroyImage
  \/ CreateImageView({ IdentityComponents }, CubeBases)
  \/ tu_DestroyImageView

SpecCube == Init /\ [][NextCube]_vars



----------------------------------------------------------------------------
(* Properties of image creation *)

\* the last tu_image_create call returned VK_SUCCESS and its image is live
Created == result = VK_SUCCESS /\ args # NULL /\ image # NULL

\* the planes the plane loop laid out for the image
LaidOutPlanes(img) == 0 .. (tu6_plane_count(img.vk_format) - 1)

\* C1: every image tu_image_create returned successfully for a create info
\* with MUTABLE_FORMAT and a format that is not depth/stencil has tile_mode
\* LINEAR and ubwc false on every laid-out plane, whatever the tiling hint,
\* modifier, usage, extent and debug flags.
C1_MutableFormatIsLinear ==
  ( /\ Created
    /\ "MUTABLE_FORMAT" \in args.pCreateInfo.flags
    /\ ~vk_format_is_depth_or_stencil(args.pCreateInfo.format) )
  => \A p \in LaidOutPlanes(image) :
       /\ image.layout[p].tile_mode = TILE6_LINEAR
       /\ image.layout[p].ubwc = FALSE

\* a mutable colour image created with the OPTIMAL hint on a device with UBWC
C1_Witness ==
  /\ Created
  /\ "MUTABLE_FORMAT" \in args.pCreateInfo.flags
  /\ args.pCreateInfo.format = "R8G8B8A8_UNORM"
  /\ args.pCreateInfo.tiling = "OPTIMAL"
  /\ args.modifier = DRM_FORMAT_MOD_INVALID
  /\ ~dev.noubwc
  /\ image.layout[0].tile_mode = TILE6_LINEAR
  /\ image.layout[0].size > 0

\* C2: every image tu_image_create returned successfully with STORAGE in its
\* usage has ubwc false on every plane, for every format, tiling hint,
\* modifier and quirk setting.
C2_StorageHasNoUbwc ==
  (Created /\ "STORAGE" \in args.pCreateInfo.usage)
  => \A p \in PlaneIdx :
       /\ image.layout[p].ubwc = FALSE
       /\ image.layout[p].ubwc_layer_size = 0

\* a tiled storage image of a format that would otherwise get UBWC
C2_Witness ==
  /\ Created
  /\ "STORAGE" \in args.pCreateInfo.usage
  /\ args.pCreateInfo.format = "R8G8B8A8_UNORM"
  /\ args.pCreateInfo.flags = {}
  /\ args.pCreateInfo.extent.depth = 1
  /\ ~dev.noubwc
  /\ image.layout[0].tile_mode = TILE6_3
  /\ image.layout[0].size > 0

\* C3: the modifier query answers COMPRESSED iff plane 0 has a non-zero UBWC
\* metadata region, LINEAR iff plane 0's tile_mode is LINEAR, and INVALID in
\* every other case; and no created image has plane 0 both LINEAR and with a
\* non-zero UBWC metadata region.
C3_ModifierQuery ==
  /\ Created =>
       ~( /\ image.layout[0].tile_mode = TILE6_LINEAR
          /\ image.layout[0].ubwc_layer_size # 0 )
  /\ call.op = "GetImageDrmFormatModifierPropertiesEXT" =>
       LET m == call.out.drmFormatModifier
           linear == image.layout[0].tile_mode = TILE6_LINEAR
           meta == image.layout[0].ubwc_layer_size # 0
       IN  /\ (m = DRM_FORMAT_MOD_QCOM_COMPRESSED) <=> meta
           /\ (m = DRM_FORMAT_MOD_LINEAR) <=> linear
           /\ (m = DRM_FORMAT_MOD_INVALID) <=> (~meta /\ ~linear)

\* the query answered COMPRESSED for an image with a metadata region
C3_Witness ==
  /\ call.op = "GetImageDrmFormatModifierPropertiesEXT"
  /\ call.out.drmFormatModifier = DRM_FORMAT_MOD_QCOM_COMPRESSED
  /\ image.layout[0].ubwc_layer_size # 0
  /\ image.layout[0].tile_mode = TILE6_3

\* one of the policy rules of lines 136-217 disables UBWC for the call
PolicyDisablesUbwc ==
  LET ci == args.pCreateInfo
  IN  \/ dev.noubwc
      \/ ci.tiling = "LINEAR"
      \/ args.modifier = DRM_FORMAT_MOD_LINEAR
      \/ ci.format = "G8B8G8R8_422_UNORM"
      \/ ("MUTABLE_FORMAT" \in ci.flags /\
            ci.format \notin { "D24_UNORM_S8_UINT", "D32_SFLOAT_S8_UINT", "S8_UINT" })
      \/ ci.format \in { "G8_B8R8_2PLANE_420_UNORM", "G8_B8_R8_3PLANE_420_UNORM" }
      \/ ci.format = "BC1_RGB_UNORM_BLOCK"
      \/ ci.format = "E5B9G9R9_UFLOAT_PACK32"
      \/ ci.format = "S8_UINT"
      \/ ci.extent.depth > 1
      \/ "STORAGE" \in ci.usage
      \/ ( /\ dev.limited_z24s8
           /\ ci.format = "D24_UNORM_S8_UINT"
           /\ ("SAMPLED" \in ci.usage \/ "INPUT_ATTACHMENT" \in ci.usage) )

\* C4: when tu_image_create is called with modifier COMPRESSED and a policy
\* rule has disabled UBWC, the call does not return: the assert fails with no
\* plane laid out and no handle written; a call with modifier COMPRESSED that
\* returns success has UBWC enabled by the policy.
C4_CompressedNeedsUbwc ==
  ( /\ args # NULL
    /\ args.alloc_ok
    /\ args.modifier = DRM_FORMAT_MOD_QCOM_COMPRESSED )
  => /\ PolicyDisablesUbwc =>
          /\ result = "ASSERT"
          /\ pc = "aborted"
          /\ pImage = "unwritten"
          /\ \A p \in PlaneIdx : image.layout[p] = ZeroLayout
     /\ result = VK_SUCCESS =>
          /\ ~PolicyDisablesUbwc
          /\ image.layout[0].ubwc

\* a call with modifier COMPRESSED for a storage image: the assert fails
C4_Witness ==
  /\ args # NULL
  /\ args.alloc_ok
  /\ args.modifier = DRM_FORMAT_MOD_QCOM_COMPRESSED
  /\ "STORAGE" \in args.pCreateInfo.usage
  /\ ~dev.noubwc
  /\ args.pCreateInfo.format = "R8G8B8A8_UNORM"
  /\ result = "ASSERT"

\* the layout routine rejects the explicit layout of some plane of the call
SomePlaneInfeasible ==
  \E p \in 0 .. (tu6_plane_count(args.pCreateInfo.format) - 1) :
    LET rowPitch == args.plane_layouts.planes[p + 1].rowPitch
        plane_format == tu6_plane_format(args.pCreateInfo.format, p)
        width0 == PlaneExtent(args.pCreateInfo, p).width0
    IN  \/ rowPitch % 64 # 0
        \/ rowPitch < DIV_ROUND_UP(width0, util_format_get_blockwidth(plane_format))
                        * util_format_get_blocksize(plane_format)

\* C5: for a call that got its image object and passed the assert of line
\* 220: with explicit plane layouts it returns
\* VK_ERROR_INVALID_DRM_FORMAT_MODIFIER_PLANE_LAYOUT_EXT exactly when
\* mipLevels # 1, arrayLayers # 1, extent.depth # 1 or the layout routine
\* fails for some plane, and then the image object was freed exactly once and
\* the output handle is not written; without explicit layouts it never
\* returns that error.
C5_InvalidExplicitLayout ==
  ( /\ args # NULL
    /\ args.alloc_ok
    /\ result # "ASSERT" )
  => LET invalid ==
           result = VK_ERROR_INVALID_DRM_FORMAT_MODIFIER_PLANE_LAYOUT_EXT
     IN  /\ args.plane_layouts = NULL => ~invalid
         /\ args.plane_layouts # NULL =>
              ( invalid <=>
                  \/ args.pCreateInfo.mipLevels # 1
                  \/ args.pCreateInfo.arrayLayers # 1
                  \/ args.pCreateInfo.extent.depth # 1
                  \/ SomePlaneInfeasible )
         /\ invalid =>
              /\ image_frees = 1
              /\ image = NULL
              /\ pImage = "unwritten"
         /\ ~invalid => image_frees = 0

\* the layout routine rejected the explicit layout of plane 1 (after plane 0
\* was laid out) of a single-level, single-layer 2D image
C5_Witness ==
  /\ args # NULL
  /\ args.plane_layouts # NULL
  /\ args.pCreateInfo.mipLevels = 1
  /\ args.pCreateInfo.arrayLayers = 1
  /\ args.pCreateInfo.extent.depth = 1
  /\ args.plane_layouts.planes[1] = GoodPlane
  /\ args.plane_layouts.planes[2] = BadPlane
  /\ result = VK_ERROR_INVALID_DRM_FORMAT_MODIFIER_PLANE_LAYOUT_EXT
  /\ image_frees = 1
  /\ pImage = "unwritten"

\* bytes plane p takes from its own start: its size without the shift of
\* lines 279-283
PlaneSize(img, p) ==
  IF p = 0 THEN img.layout[0].size
           ELSE img.layout[p].size - img.layout[p].slices[0].offset

\* the sizes of planes 0 .. k-1 added up, each rounded up to 4096 or not
RECURSIVE SumPlaneSizes(_, _, _)
SumPlaneSizes(img, k, rounded) ==
  IF k = 0 THEN 0
  ELSE SumPlaneSizes(img, k - 1, rounded) +
         (IF rounded THEN ALIGN_POT(PlaneSize(img, k - 1), 4096)
                     ELSE PlaneSize(img, k - 1))

\* a multi-planar image created without explicit plane layouts
MultiPlanarImplicit ==
  /\ Created
  /\ args.plane_layouts = NULL
  /\ tu6_plane_count(image.vk_format) > 1

QueriedBaseOfSimpleImage ==
  /\ Created
  /\ call.op = "GetImageSubresourceLayout"
  /\ call.in.mipLevel = 0
  /\ call.in.arrayLayer = 0
  /\ tu6_plane_count(image.vk_format) = 1
  /\ ~image.layout[0].ubwc

\* C8: for every successfully created single-plane image without UBWC, the
\* subresource layout query for mip 0, layer 0 reports row pitch
\* plane[0].slices[0].pitch and offset plane[0].slices[0].offset, which is 0
\* when the image was created without an explicit plane layout and the
\* explicit layout's offset otherwise.
C8_SubresourceRoundTrip ==
  QueriedBaseOfSimpleImage =>
    /\ call.out.rowPitch = image.layout[0].slices[0].pitch
    /\ call.out.offset = image.layout[0].slices[0].offset
    /\ call.out.offset = IF args.plane_layouts = NULL THEN 0
                         ELSE args.plane_layouts.planes[1].offset

\* the query on an image created with an explicit layout at offset 4096
C8_Witness ==
  /\ QueriedBaseOfSimpleImage
  /\ args.plane_layouts # NULL
  /\ args.plane_layouts.planes[1] = OffsetPlane
  /\ call.out.offset = 4096
  /\ call.out.rowPitch = 128

\* C8 as the claim words it: the offset reported is 0, explicit layout or not
C8_AsClaimed ==
  QueriedBaseOfSimpleImage =>
    /\ call.out.offset = 0
    /\ call.out.rowPitch = image.layout[0].slices[0].pitch

----------------------------------------------------------------------------
(* Properties of image views and of the subresource layout query *)

DepthStencilFormats == { "D24_UNORM_S8_UINT", "D32_SFLOAT_S8_UINT" }

\* the plane an aspect of a combined depth+stencil image lives in: the
\* stencil of D32_SFLOAT_S8_UINT is a plane of its own, that of
\* D24_UNORM_S8_UINT shares plane 0 with the depth
PlaneOfAspect(format, aspect) ==
  IF aspect = "STENCIL" /\ format = "D32_SFLOAT_S8_UINT" THEN 1 ELSE 0

\* the plane the claim's wording gives: stencil is plane 1 for both formats
ClaimedPlaneOfAspect(format, aspect) == IF aspect = "STENCIL" THEN 1 ELSE 0

\* the subresource layout query answered from plane p of the image
QueryUsesPlane(p) ==
  LET layout == image.layout[p]
      slice == layout.slices[call.in.mipLevel]
  IN  /\ call.out.rowPitch = slice.pitch
      /\ call.out.size = slice.size0
      /\ ~layout.ubwc =>
           call.out.offset = slice.offset +
             call.in.arrayLayer * (IF layout.layer_first THEN layout.layer_size
                                                         ELSE slice.size0)

\* the view's texture descriptor built from plane p of the image
ViewUsesPlane(p) ==
  LET layout == image.layout[p]
      range == call.in.subresourceRange
      slice == layout.slices[range.baseMipLevel]
  IN  /\ image_view.descriptor[2].PITCH = slice.pitch
      /\ image_view.descriptor[2].PITCHALIGN = layout.pitchalign - 6
      /\ image_view.descriptor[4].value =
           AddU64(AddU64(bo.iova, bo.bo_offset), slice.offset).lo

QueriedDepthStencil ==
  /\ Created
  /\ call.op = "GetImageSubresourceLayout"
  /\ image.vk_format \in DepthStencilFormats

ViewedDepthStencil ==
  /\ Created
  /\ call.op = "CreateImageView"
  /\ call.result = VK_SUCCESS
  /\ image.vk_format \in DepthStencilFormats

\* C9: in view creation and in the subresource layout query alike, the depth
\* aspect of a combined depth+stencil image resolves to plane 0; the stencil
\* aspect resolves to plane 1 for D32_SFLOAT_S8_UINT and to plane 0 for
\* D24_UNORM_S8_UINT, which has a single plane.
C9_StencilPlane ==
  /\ QueriedDepthStencil =>
       QueryUsesPlane(PlaneOfAspect(image.vk_format, call.in.aspectMask))
  /\ ViewedDepthStencil =>
       ViewUsesPlane(PlaneOfAspect(image.vk_format,
                                   call.in.subresourceRange.aspectMask))

\* a stencil view of a D24_UNORM_S8_UINT image, built from plane 0
C9_Witness ==
  /\ ViewedDepthStencil
  /\ image.vk_format = "D24_UNORM_S8_UINT"
  /\ call.in.subresourceRange.aspectMask = "STENCIL"
  /\ image_view.descriptor[2].PITCH = image.layout[0].slices[0].pitch
  /\ image_view.descriptor[2].PITCH > 0
  /\ image.layout[1] = ZeroLayout

\* C9 as the claim words it: stencil resolves to plane 1 for both formats
C9_AsClaimed ==
  /\ QueriedDepthStencil =>
       QueryUsesPlane(ClaimedPlaneOfAspect(image.vk_format, call.in.aspectMask))
  /\ ViewedDepthStencil =>
       ViewUsesPlane(ClaimedPlaneOfAspect(image.vk_format,
                                          call.in.subresourceRange.aspectMask))

\* C6: create_image followed by create_view gives the same plane layouts and
\* the same view contents (texture descriptor, storage descriptor, per-view
\* fields) for the same inputs, whatever the memory of the view object held
\* before.
C6_Determinism ==
  ( /\ Created
    /\ call.op = "CreateImageView"
    /\ call.result = VK_SUCCESS )
  => /\ image = tu_image_create(dev, args.pCreateInfo, args.modifier,
                                args.plane_layouts, args.alloc_ok).image
     /\ \A prior \in PriorMemory :
          image_view = tu_image_view_init(RawImageView(prior), image, bo,
                                          call.in, dev.limited_z24s8).iview

----------------------------------------------------------------------------
(* Properties of buffer views *)

\* C10: texture descriptor word 0 of a buffer view has the SRGB bit set when
\* the view's format is sRGB and clear when it is not.
C10_BufferViewSrgb ==
  ( /\ call.op = "CreateBufferView"
    /\ call.result = VK_SUCCESS
    /\ buffer_view # NULL )
  => buffer_view.descriptor[0].SRGB = vk_format_is_srgb(call.in.format)

----------------------------------------------------------------------------
(* Properties of buffer views *)

BufferViewed ==
  /\ call.op = "CreateBufferView"
  /\ call.result = VK_SUCCESS
  /\ buffer_view # NULL

\* buffer size - offset for VK_WHOLE_SIZE, else the given range, as the pair
\* [hi, lo] with value hi * 2^32 + lo, where lo may be negative
BufferViewedRange64 ==
  IF call.in.range = VK_WHOLE_SIZE
    THEN [ hi |-> WordValue(call.buffer.size.hi),
           lo |-> WordValue(call.buffer.size.lo) - call.in.offset ]
    ELSE [ hi |-> 0, lo |-> call.in.range ]

\* its low 32 bits, which the 32-bit variable range of line 841 keeps
BufferViewedRange32 ==
  [ hi |-> IF BufferViewedRange64.lo < 0 THEN 1 ELSE 0,
    lo |-> BufferViewedRange64.lo ]

\* range / blocksize for a block size that divides 2^16
BufferElementsOf(range, blocksize) ==
  (range.hi * (65536 \div blocksize) * 65536) + (range.lo \div blocksize)

BufferViewedBlocksize == util_format_get_blocksize(call.in.format)

\* C16: a buffer view's element count is range / block size, where range
\* is the given range or, for VK_WHOLE_SIZE, buffer size - offset, in
\* either case as a 32-bit value; the width field holds its low 15 bits and
\* the height field the rest, so that width + height * 2^15 is the element
\* count, and words 4 and 5 hold the buffer address plus the offset.
C16_BufferViewElements ==
  BufferViewed =>
    LET elements == BufferElementsOf(BufferViewedRange32,
                                     BufferViewedBlocksize)
        w1 == buffer_view.descriptor[1]
    IN  /\ w1.WIDTH = elements % 32768
        /\ w1.HEIGHT = elements \div 32768
        /\ w1.WIDTH + (w1.HEIGHT * 32768) = elements
        /\ SubU64([ hi |-> buffer_view.descriptor[5].value,
                    lo |-> buffer_view.descriptor[4].value ],
                  call.in.offset) = call.buffer.iova

\* the view of 1 MiB of 16-byte texels at offset 4096: 65536 elements
C16_Witness ==
  /\ BufferViewed
  /\ call.in.format = "R32G32B32A32_SFLOAT"
  /\ call.in.range = 1048576
  /\ call.in.offset = 4096
  /\ buffer_view.descriptor[1].WIDTH = 0
  /\ buffer_view.descriptor[1].HEIGHT = 2
  /\ buffer_view.descriptor[5].value # call.buffer.iova.hi

\* C16 as stated: the element count is (buffer size - offset) / block size
\* by the full size of the buffer
C16_AsClaimed ==
  BufferViewed =>
    LET elements == BufferElementsOf(BufferViewedRange64,
                                     BufferViewedBlocksize)
        w1 == buffer_view.descriptor[1]
    IN  w1.WIDTH + (w1.HEIGHT * 32768) = elements

----------------------------------------------------------------------------
(* Properties of the descriptors of image views *)

\* the last call created a view of the live image
Viewed ==
  /\ Created
  /\ call.op = "CreateImageView"
  /\ call.result = VK_SUCCESS
  /\ image_view # NULL

ViewedSinglePlane == Viewed /\ tu6_plane_count(image.vk_format) = 1

\* fdl_surface_offset of the view's base level and base layer in plane 0
ViewSurfaceOffset ==
  fdl_surface_offset(image.layout[0], call.in.subresourceRange.baseMipLevel,
                     call.in.subresourceRange.baseArrayLayer)

\* the BASE_HI field (bits 0..16) and the DEPTH field (bits 17..29) of
\* texture descriptor word 5
BaseHiOf(w5) == [h |-> w5.h % 2, l |-> w5.l]
DepthOf(w5) == (w5.h \div 2) % 8192
FitsBaseHi(w) == w.h < 2

\* the depth the view's texture descriptor is given
ViewedDepth ==
  ViewDepth(call.in.viewType,
            ViewStorageDepth(image, call.in.viewType, call.in.subresourceRange))

----------------------------------------------------------------------------
(* Properties of the component swizzles *)

TexAlphabet == { "X", "Y", "Z", "W", "ZERO", "ONE" }

MappingSeq(mapping) == <<mapping.r, mapping.g, mapping.b, mapping.a>>

\* what position i of a swizzle is after the mapping is applied to prev: the
\* literal the mapping names, or the element of prev it selects
Selected(prev, mapping, i) ==
  LET m == MappingSeq(mapping)[i]
  IN  IF m \in { "ZERO", "ONE" } THEN m
      ELSE IF m = "IDENTITY" THEN prev[i]
      ELSE prev[CASE m = "R" -> 1 [] m = "G" -> 2 [] m = "B" -> 3 [] m = "A" -> 4]

\* C12: composing a swizzle with M1 and then with M2 gives, at each position
\* i, the literal ZERO/ONE when M2[i] is one, and otherwise the element of
\* compose(s, M1) at i (IDENTITY) or at M2[i] - R; tu6_texswiz applies the
\* user mapping and then the conversion's mapping in exactly this way, and
\* its result stays within X, Y, Z, W, ZERO, ONE.
C12_SwizzleComposition ==
  /\ call.op = "compose_swizzle" =>
       /\ \A i \in 1 .. 4 :
            /\ call.once[i] = Selected(args.swiz, args.m1, i)
            /\ call.twice[i] = Selected(call.once, args.m2, i)
       /\ \A i \in 1 .. 4 : call.twice[i] \in TexAlphabet
  /\ call.op = "tu6_texswiz" =>
       LET s0 == BaseSwizzle(call.format, call.aspect_mask, dev.limited_z24s8)
           s1 == [i \in 1 .. 4 |-> Selected(s0, args.m1, i)]
       IN  \A i \in 1 .. 4 :
             /\ call.out[i] \in TexAlphabet
             /\ call.out[i] = IF call.conversion = NULL
                                THEN s1[i]
                                ELSE Selected(s1, args.m2, i)

\* a 4:2:0 view whose conversion selects G for r where the user mapping
\* selected B for g: the red output is the seed's third element
C12_Witness ==
  /\ call.op = "tu6_texswiz"
  /\ call.conversion # NULL
  /\ call.format = "G8_B8R8_2PLANE_420_UNORM"
  /\ args.m2.r = "G"
  /\ args.m1.g = "B"
  /\ call.out[1] = "Y"

\* the mappings that name every component as itself
SelfMappings == { IdentityComponents, BufferViewComponents }

\* C13: composing any base swizzle with the all-IDENTITY mapping, or with
\* the explicit (R, G, B, A) mapping buffer views use, returns the swizzle
\* unchanged; tu6_texswiz with such a mapping and no conversion returns the
\* format's seed.
C13_SwizzleIdentity ==
  /\ (call.op = "compose_swizzle" /\ args.m1 \in SelfMappings) =>
       call.once = args.swiz
  /\ (call.op = "compose_swizzle" /\ args.m2 \in SelfMappings) =>
       call.twice = call.once
  /\ (call.op = "tu6_texswiz" /\ args.m1 \in SelfMappings
        /\ call.conversion = NULL) =>
       call.out = BaseSwizzle(call.format, call.aspect_mask, dev.limited_z24s8)

\* the identity mapping applied to a swizzle of literals and channels
C13_Witness ==
  /\ call.op = "compose_swizzle"
  /\ args.m1 = IdentityComponents
  /\ args.swiz = <<"ONE", "W", "ZERO", "X">>
  /\ call.once = <<"ONE", "W", "ZERO", "X">>

----------------------------------------------------------------------------
(* Properties of the plane geometry *)

CeilHalf(n) == (n \div 2) + (n % 2)

\* C14: an image of a 2-plane or 3-plane 4:2:0 format has plane 0 laid out
\* with the image's width and height and every chroma plane with
\* ceil(width / 2) and ceil(height / 2) of the image's extent, the halving
\* not accumulating from one chroma plane to the next.
C14_YCbCrGeometry ==
  (Created /\ image.vk_format \in YCbCr420Formats) =>
    /\ image.layout[0].width0 = args.pCreateInfo.extent.width
    /\ image.layout[0].height0 = args.pCreateInfo.extent.height
    /\ \A p \in 1 .. (tu6_plane_count(image.vk_format) - 1) :
         /\ image.layout[p].width0 = CeilHalf(args.pCreateInfo.extent.width)
         /\ image.layout[p].height0 = CeilHalf(args.pCreateInfo.extent.height)

\* a 3-plane image of 5 x 3 texels: both chroma planes are 3 x 2
C14_Witness ==
  /\ Created
  /\ image.vk_format = "G8_B8_R8_3PLANE_420_UNORM"
  /\ args.pCreateInfo.extent.width = 5
  /\ args.pCreateInfo.extent.height = 3
  /\ image.layout[1].width0 = 3
  /\ image.layout[2].width0 = 3
  /\ image.layout[2].height0 = 2

----------------------------------------------------------------------------
(* Properties of the depth fields *)

\* the layers the view covers, VK_REMAINING_ARRAY_LAYERS resolved
ViewedLayers ==
  IF call.in.subresourceRange.layerCount = VK_REMAINING_ARRAY_LAYERS
    THEN image.layer_count - call.in.subresourceRange.baseArrayLayer
    ELSE call.in.subresourceRange.layerCount

\* the depth of the image at the view's base level, for 3D views, and the
\* view's layers for the others
ViewedStorageDepth ==
  IF call.in.viewType = "3D"
    THEN Max2(1, Shr(image.extent.depth,
                     call.in.subresourceRange.baseMipLevel))
    ELSE ViewedLayers

\* C15: the depth field of a CUBE or CUBE_ARRAY view's texture descriptor is
\* the view's layer count divided by 6, while the storage descriptor of the
\* same view holds the undivided count; for the other view types both hold
\* the storage depth: the image depth minified to the base level for 3D
\* views, the layer count otherwise.
C15_CubeDepth ==
  Viewed =>
    /\ DepthOf(image_view.descriptor[5].value) =
         IF call.in.viewType \in { "CUBE", "CUBE_ARRAY" }
           THEN ViewedLayers \div 6
           ELSE ViewedStorageDepth
    /\ "STORAGE" \in image.usage =>
         DepthOf(image_view.storage_descriptor[5].value) = ViewedStorageDepth

\* a cube array view of twelve layers of a storage image
C15_Witness ==
  /\ Viewed
  /\ "STORAGE" \in image.usage
  /\ call.in.viewType = "CUBE_ARRAY"
  /\ ViewedLayers = 12
  /\ DepthOf(image_view.descriptor[5].value) = 2
  /\ DepthOf(image_view.storage_descriptor[5].value) = 12

----------------------------------------------------------------------------
(* Properties of views of storage images *)

ViewedStorage ==
  /\ Viewed
  /\ "STORAGE" \in image.usage
  /\ image.vk_format \notin YCbCr420Formats

\* the plane of the image the view was built from
ViewedLayout ==
  image.layout[tu6_plane_index(image.vk_format,
                               call.in.subresourceRange.aspectMask)]

\* lines 600-609: the storage descriptor is built
StorageDescriptorBuilt ==
  "FMT_COLOR" \in
    tu6_native_format(ViewFormat(call.in.format,
                                 call.in.subresourceRange.aspectMask)).supported

\* C17: a view of an image created with STORAGE usage, other than a view of
\* a multi-planar 4:2:0 image, has neither FLAG nor TILE_ALL in texture
\* descriptor word 3, its base level has no UBWC, and its storage
\* descriptor, where one is built, has FLAG clear and words 7 to 10 zero.
C17_StorageViewNoUbwc ==
  ViewedStorage =>
    /\ ~image_view.descriptor[3].FLAG
    /\ ~image_view.descriptor[3].TILE_ALL
    /\ ~fdl_ubwc_enabled(ViewedLayout, call.in.subresourceRange.baseMipLevel)
    /\ StorageDescriptorBuilt =>
         /\ ~image_view.storage_descriptor[3].FLAG
         /\ \A w \in 7 .. 10 : image_view.storage_descriptor[w] = ZeroWord

\* a view of a tiled R8G8B8A8_UNORM storage image on a device with UBWC
C17_Witness ==
  /\ ViewedStorage
  /\ ~dev.noubwc
  /\ image.vk_format = "R8G8B8A8_UNORM"
  /\ image.layout[0].tile_mode = TILE6_3
  /\ image_view.storage_descriptor[2].TYPE = "A6XX_TEX_2D"
  /\ image_view.storage_descriptor[7] = ZeroWord

----------------------------------------------------------------------------
(* Properties of the tiling policy *)

\* the inputs for which the policy chooses LINEAR
PolicyChoosesLinear ==
  LET ci == args.pCreateInfo
  IN  \/ ci.tiling = "LINEAR"
      \/ args.modifier = DRM_FORMAT_MOD_LINEAR
      \/ ci.format = "G8B8G8R8_422_UNORM"
      \/ ("MUTABLE_FORMAT" \in ci.flags /\
            ci.format \notin { "D24_UNORM_S8_UINT", "D32_SFLOAT_S8_UINT", "S8_UINT" })
      \/ ci.format \in { "G8_B8R8_2PLANE_420_UNORM", "G8_B8_R8_3PLANE_420_UNORM" }

\* C18: plane 0 of a created image is LINEAR exactly when the tiling hint or
\* the modifier is LINEAR, the format is subsampled or 2-/3-plane 4:2:0, or
\* MUTABLE_FORMAT is set for a format that is not depth/stencil, and TILED
\* otherwise; its ubwc is true exactly when the no-UBWC debug flag is clear,
\* the tile mode is TILED and no rule for compressed formats, E5B9G9R9,
\* S8_UINT, depth > 1, STORAGE usage or limited D24S8 applies; later planes
\* have the same tile mode and ubwc, except that the stencil plane of
\* D32_SFLOAT_S8_UINT has no ubwc; so a LINEAR plane never has ubwc.
C18_TilingPolicy ==
  Created =>
    /\ image.layout[0].tile_mode =
         IF PolicyChoosesLinear THEN TILE6_LINEAR ELSE TILE6_3
    /\ image.layout[0].ubwc = ~PolicyDisablesUbwc
    /\ \A p \in LaidOutPlanes(image) \ {0} :
         /\ image.layout[p].tile_mode = image.layout[0].tile_mode
         /\ image.layout[p].ubwc =
              IF image.vk_format = "D32_SFLOAT_S8_UINT"
                THEN FALSE ELSE image.layout[0].ubwc
    /\ \A p \in LaidOutPlanes(image) :
         image.layout[p].tile_mode = TILE6_LINEAR => ~image.layout[p].ubwc

\* a D32_SFLOAT_S8_UINT image with UBWC on its depth plane only
C18_Witness ==
  /\ Created
  /\ image.vk_format = "D32_SFLOAT_S8_UINT"
  /\ "MUTABLE_FORMAT" \in args.pCreateInfo.flags
  /\ image.layout[0].tile_mode = TILE6_3
  /\ image.layout[0].ubwc
  /\ ~image.layout[1].ubwc

----------------------------------------------------------------------------
(* Properties of the placement of planes *)

\* what fdl6_layout returns for plane p of the image, before any shift
UnshiftedPlane(p) ==
  fdl6_layout([ZeroLayout EXCEPT !.tile_mode = image.layout[p].tile_mode,
                                 !.ubwc = image.layout[p].ubwc],
              tu6_plane_format(image.vk_format, p), image.samples,
              image.layout[p].width0, image.layout[p].height0,
              args.pCreateInfo.extent.depth, args.pCreateInfo.mipLevels,
              args.pCreateInfo.arrayLayers, args.pCreateInfo.imageType = "3D",
              IF args.plane_layouts = NULL THEN NULL
              ELSE [ offset |-> args.plane_layouts.planes[p + 1].offset,
                     pitch |-> args.plane_layouts.planes[p + 1].rowPitch ]).layout

\* image.total_size after the planes before p: the largest of their sizes
RECURSIVE TotalBefore(_)
TotalBefore(p) ==
  IF p = 0 THEN 0 ELSE Max2(TotalBefore(p - 1), image.layout[p - 1].size)

RoundUp4096(n) == ((n + 4095) \div 4096) * 4096

\* plane p as the loop leaves it is its unshifted layout moved by offset
PlaneMovedBy(p, offset) ==
  LET raw == UnshiftedPlane(p)
  IN  /\ \A l \in 0 .. (args.pCreateInfo.mipLevels - 1) :
           /\ image.layout[p].slices[l].offset = raw.slices[l].offset + offset
           /\ image.layout[p].ubwc_slices[l].offset =
                raw.ubwc_slices[l].offset + offset
      /\ image.layout[p].size = raw.size + offset

\* C19: without explicit layouts every slice offset and UBWC-slice offset
\* of a plane i > 0, for the levels below mipLevels, and the plane's size are
\* those fdl6_layout returned plus align_up(T, 4096), T being total_size
\* after planes 0..i-1; in the end total_size is the last plane's shifted
\* size, no plane's size exceeds it, and each plane starts where or after
\* the plane before it ends.  With explicit layouts nothing is shifted and
\* total_size is the largest plane size.
C19_PlaneShift ==
  Created =>
    /\ PlaneMovedBy(0, 0)
    /\ \A p \in LaidOutPlanes(image) \ {0} :
         IF args.plane_layouts = NULL
           THEN /\ PlaneMovedBy(p, RoundUp4096(TotalBefore(p)))
                /\ image.layout[p - 1].size <= image.layout[p].slices[0].offset
                /\ image.layout[p - 1].size <=
                     image.layout[p].ubwc_slices[0].offset
           ELSE PlaneMovedBy(p, 0)
    /\ image.total_size = TotalBefore(tu6_plane_count(image.vk_format))
    /\ \A p \in LaidOutPlanes(image) : image.layout[p].size <= image.total_size
    /\ args.plane_layouts = NULL =>
         image.total_size =
           image.layout[tu6_plane_count(image.vk_format) - 1].size

\* a three-plane image of two levels: level 1 of the last plane lies beyond
\* its level 0, which lies beyond the end of the plane before
C19_Witness ==
  /\ Created
  /\ args.plane_layouts = NULL
  /\ tu6_plane_count(image.vk_format) = 3
  /\ args.pCreateInfo.mipLevels = 2
  /\ image.layout[2].slices[1].offset > image.layout[2].slices[0].offset
  /\ image.layout[2].slices[0].offset > image.layout[1].size
  /\ image.total_size = image.layout[2].size

----------------------------------------------------------------------------
(* Properties of views of combined depth/stencil images *)

ViewedD24S8 == Viewed /\ IsD24S8(image.vk_format)

\* UBWC at the view's base level
ViewedUbwc ==
  fdl_ubwc_enabled(ViewedLayout, call.in.subresourceRange.baseMipLevel)

\* the texture format of lines 487-490 for the aspect of the view
AspectFormat ==
  IF call.in.subresourceRange.aspectMask = "STENCIL"
    THEN (IF dev.limited_z24s8 THEN "FMT6_8_8_8_8_UINT"
                               ELSE "FMT6_Z24_UINT_S8_UINT")
    ELSE "FMT6_Z24_UNORM_S8_UINT"

\* C20: the format in texture descriptor word 0 of a view of a combined
\* D24S8 image is Z24_UNORM_S8_UINT for the depth aspect and
\* (limited_z24s8 ? 8_8_8_8_UINT : Z24_UINT_S8_UINT) for the stencil aspect,
\* with UBWC at the base level as without it; with UBWC the AS_R8G8B8A8
\* re-encoding is the color format of the view's 2D source info.
C20_D24S8TextureFormat ==
  ViewedD24S8 =>
    /\ image_view.descriptor[0].FMT = AspectFormat
    /\ ViewedUbwc =>
         image_view.SP_PS_2D_SRC_INFO.color_format =
           "FMT6_Z24_UNORM_S8_UINT_AS_R8G8B8A8"

\* a stencil view of a D24_UNORM_S8_UINT image with UBWC
C20_Witness ==
  /\ ViewedD24S8
  /\ ViewedUbwc
  /\ call.in.subresourceRange.aspectMask = "STENCIL"
  /\ image_view.descriptor[0].FMT = "FMT6_Z24_UINT_S8_UINT"
  /\ image_view.descriptor[3].FLAG

\* C20 as stated: with UBWC at the base level word 0 holds the AS_R8G8B8A8
\* re-encoding for either aspect
C20_AsClaimed ==
  (ViewedD24S8 /\ ViewedUbwc) =>
    image_view.descriptor[0].FMT = "FMT6_Z24_UNORM_S8_UINT_AS_R8G8B8A8"

----------------------------------------------------------------------------
(* Properties of the cached fields of image views *)

\* a view that is not built by the multi-planar branch of lines 510-551
ViewedPlain ==
  /\ Viewed
  /\ ~IsYCbCr420(ViewFormat(call.in.format,
                            call.in.subresourceRange.aspectMask))

\* image->bo->iova + image->bo_offset + offset
ViewedAddress(offset) == AddU64(AddU64(bo.iova, bo.bo_offset), offset)

ViewedBaseMip == call.in.subresourceRange.baseMipLevel

\* the fields written before the return of line 601
ViewedAddressCache ==
  /\ image_view.base_addr =
       [ value |-> ViewedAddress(
           fdl_surface_offset(ViewedLayout, ViewedBaseMip,
                              call.in.subresourceRange.baseArrayLayer)) ]
  /\ image_view.ubwc_addr =
       [ value |-> ViewedAddress(
           fdl_ubwc_offset(ViewedLayout, ViewedBaseMip,
                           call.in.subresourceRange.baseArrayLayer)) ]
  /\ image_view.layer_size =
       [ value |-> fdl_layer_stride(ViewedLayout, ViewedBaseMip) ]
  /\ image_view.ubwc_layer_size = [ value |-> ViewedLayout.ubwc_layer_size ]

\* extent, ubwc_enabled and need_y2_align hold the values of the base level
ViewedLevelCache ==
  /\ image_view.extent =
       [ width |-> u_minify(ViewedLayout.width0, ViewedBaseMip),
         height |-> u_minify(ViewedLayout.height0, ViewedBaseMip) ]
  /\ image_view.ubwc_enabled =
       [ value |-> fdl_ubwc_enabled(ViewedLayout, ViewedBaseMip) ]
  /\ image_view.need_y2_align =
       [ value |-> /\ fdl_tile_mode(ViewedLayout, ViewedBaseMip) = TILE6_LINEAR
                   /\ ViewedBaseMip # image.level_count - 1 ]

\* extent, ubwc_enabled and need_y2_align still hold what the allocation held
ViewedLevelCacheUnwritten ==
  /\ image_view.extent = Junk(call.prior)
  /\ image_view.ubwc_enabled = Junk(call.prior)
  /\ image_view.need_y2_align = Junk(call.prior)

\* C21: every view that is not multi-planar has base_addr, ubwc_addr,
\* layer_size and ubwc_layer_size set from the base level and base layer of
\* its plane, whether or not its format supports color output; extent (the
\* minified width0 and height0), ubwc_enabled (UBWC of the base level) and
\* need_y2_align (base level linear and not the last level of the image) are
\* set only when the format supports color output, and are left as the
\* allocation held them when it does not.
C21_ViewCache ==
  ViewedPlain =>
    /\ ViewedAddressCache
    /\ IF StorageDescriptorBuilt
         THEN ViewedLevelCache
         ELSE ViewedLevelCacheUnwritten

\* a view of level 0 of a linear two-level image whose format supports color
\* output: need_y2_align is set, and the extent is that of level 0
C21_Witness ==
  /\ ViewedPlain
  /\ StorageDescriptorBuilt
  /\ image.level_count = 2
  /\ ViewedBaseMip = 0
  /\ image_view.need_y2_align = [value |-> TRUE]
  /\ image_view.extent.width = ViewedLayout.width0

\* C21 as stated: extent, ubwc_enabled and need_y2_align are set for every
\* view that is not multi-planar, whether or not its format supports color
\* output
C21_AsClaimed ==
  ViewedPlain => (ViewedAddressCache /\ ViewedLevelCache)

----------------------------------------------------------------------------
(* Properties of the subresource layout query under UBWC *)

\* the last call was the subresource layout query on the live image
Queried == Created /\ call.op = "GetImageSubresourceLayout"

\* the plane the queried aspect resolves to, and its slice of the queried level
QueriedLayout ==
  image.layout[tu6_plane_index(image.vk_format, call.in.aspectMask)]

QueriedSlice == QueriedLayout.slices[call.in.mipLevel]

\* the distance between two layers of the queried level
QueriedLayerStride ==
  IF QueriedLayout.layer_first THEN QueriedLayout.layer_size
                               ELSE QueriedSlice.size0

\* C22: a subresource layout query whose plane has UBWC at the queried level
\* reports offset 0 whatever the slice offset and the layer stride are, takes
\* size, rowPitch, arrayPitch and depthPitch from the data slice, and passes
\* its assert exactly when the image has one mip level and one array layer;
\* without UBWC at the level the offset is the slice offset plus the layer
\* stride times the layer, size and depthPitch are the slice's size, and no
\* assert fails.
C22_SubresourceLayoutUbwc ==
  Queried =>
    /\ call.out.size = QueriedSlice.size0
    /\ call.out.depthPitch = QueriedSlice.size0
    /\ call.out.rowPitch = QueriedSlice.pitch
    /\ call.out.arrayPitch = QueriedLayerStride
    /\ IF QueriedLayout.ubwc
         THEN /\ call.out.offset = 0
              /\ (pc = "aborted") <=>
                   ~(image.level_count = 1 /\ image.layer_count = 1)
         ELSE /\ call.out.offset =
                   QueriedSlice.offset + QueriedLayerStride * call.in.arrayLayer
              /\ pc = "created"

\* the query for layer 1 of a two-layer UBWC image: the surface offset is
\* not 0, the offset reported is, and the assert of line 766 fails
C22_Witness ==
  /\ Queried
  /\ QueriedLayout.ubwc
  /\ image.layer_count = 2
  /\ call.in.arrayLayer = 1
  /\ QueriedSlice.offset + QueriedLayerStride * call.in.arrayLayer > 0
  /\ call.out.offset = 0
  /\ call.out.size > 0
  /\ pc = "aborted"

====
